---- MODULE Spec2Model ----
(***************************************************************************)
(* Conversion orchestration layer of the file converter: the converter     *)
(* contract (base.py), the converter registry (registry.py), the backend   *)
(* wrappers (ffmpeg, pandoc, libreoffice) and the five category            *)
(* converters.                                                             *)
(*                                                                         *)
(* Python strings are modelled as sequences of one-character strings, so   *)
(* that lower() and lstrip('.') are computed and not assumed.  Messages    *)
(* are sequences of text pieces (an f-string is a concatenation); the      *)
(* empty message is << >>.  Optional[T] is a set with at most one element: *)
(* None is {} and a value v is {v}.                                        *)
(***************************************************************************)
EXTENDS Integers, Sequences, FiniteSets, TLC

VARIABLES
    fs,          \* files present on disk: set of paths [parent, name]
    dirs,        \* directories present on disk
    path,        \* the backends' cached executable paths (_ffmpeg_path, ...)
    cache,       \* the Dependency Locator's cache, per tool
    call,        \* the conversion that has returned, with what it did
    converters,  \* ConverterRegistry._converters
    regOrder,    \* history: the registered instances, oldest registration first
    lastOp,      \* history: the last registry operation and the list before it
    pin,         \* argument of the pure helper under check
    pout,        \* its result
    installed,   \* environment: whether each tool's executable is on the machine
    dep,         \* history: the last operation on the dependency state
    prog,        \* the progress callback's view of the conversion
    stream       \* a transcode in flight: the tool, its error pipe, the reader

vars == <<fs, dirs, path, cache, call, converters, regOrder, lastOp, pin, pout,
          installed, dep, prog, stream>>

convVars == <<fs, dirs, path, cache, call>>
regVars == <<converters, regOrder, lastOp>>
pureVars == <<pin, pout>>
depVars == <<installed, dep>>
progVars == <<prog, stream>>

----------------------------------------------------------------------------
(* Optional values and sequences                                           *)

None == {}

Some(v) == {v}

Get(o) == CHOOSE v \in o : TRUE

Range(s) == {s[i] : i \in 1..Len(s)}

----------------------------------------------------------------------------
(* Python string operations                                                *)

LowerChars ==
    <<"a","b","c","d","e","f","g","h","i","j","k","l","m",
      "n","o","p","q","r","s","t","u","v","w","x","y","z">>

UpperChars ==
    <<"A","B","C","D","E","F","G","H","I","J","K","L","M",
      "N","O","P","Q","R","S","T","U","V","W","X","Y","Z">>

DigitChars == <<"1","2","3","4","5","6","7","8","9">>

\* str.lower() on one character
CharLower(c) ==
    IF \E i \in 1..Len(UpperChars) : UpperChars[i] = c
    THEN LowerChars[CHOOSE i \in 1..Len(UpperChars) : UpperChars[i] = c]
    ELSE c

\* str.lower()
StrLower(s) == [i \in 1..Len(s) |-> CharLower(s[i])]

\* str.upper() on one character (used to build upper-case requests)
CharUpper(c) ==
    IF \E i \in 1..Len(LowerChars) : LowerChars[i] = c
    THEN UpperChars[CHOOSE i \in 1..Len(LowerChars) : LowerChars[i] = c]
    ELSE c

StrUpper(s) == [i \in 1..Len(s) |-> CharUpper(s[i])]

RECURSIVE LStripDot(_)
\* str.lstrip('.'): every leading dot is removed
LStripDot(s) ==
    IF s # << >> /\ Head(s) = "." THEN LStripDot(Tail(s)) ELSE s

\* str.rfind('.'), 1-based; 0 when there is no dot
RFindDot(s) ==
    IF \E i \in 1..Len(s) : s[i] = "."
    THEN CHOOSE i \in 1..Len(s) :
            s[i] = "." /\ \A j \in (i + 1)..Len(s) : s[j] # "."
    ELSE 0

\* pathlib: PurePath.suffix of a file name (with its dot, or empty)
PathSuffix(name) ==
    LET i == RFindDot(name)
    IN  IF 1 < i /\ i < Len(name) THEN SubSeq(name, i, Len(name)) ELSE << >>

\* pathlib: PurePath.stem of a file name
PathStem(name) ==
    LET i == RFindDot(name)
    IN  IF 1 < i /\ i < Len(name) THEN SubSeq(name, 1, i - 1) ELSE name

----------------------------------------------------------------------------
(* base.py: the converter contract                                         *)

Categories == {"Image", "Audio", "Video", "Document", "Presentation"}

supported_input_formats(c) ==
    CASE c = "Image" ->
           {<<"p","n","g">>, <<"j","p","g">>, <<"j","p","e","g">>, <<"w","e","b","p">>,
            <<"b","m","p">>, <<"g","i","f">>, <<"t","i","f","f">>, <<"t","i","f">>,
            <<"i","c","o">>}
      [] c = "Audio" ->
           {<<"m","p","3">>, <<"w","a","v">>, <<"f","l","a","c">>, <<"o","g","g">>,
            <<"m","4","a">>, <<"a","a","c">>, <<"w","m","a">>, <<"o","p","u","s">>,
            <<"m","p","4">>, <<"m","k","v">>, <<"a","v","i">>, <<"m","o","v">>,
            <<"w","e","b","m">>, <<"f","l","v">>}
      [] c = "Video" ->
           {<<"m","p","4">>, <<"m","k","v">>, <<"a","v","i">>, <<"m","o","v">>,
            <<"w","e","b","m">>, <<"f","l","v">>, <<"w","m","v">>, <<"m","4","v">>,
            <<"3","g","p">>}
      [] c = "Document" ->
           {<<"d","o","c","x">>, <<"d","o","c">>, <<"o","d","t">>, <<"t","x","t">>,
            <<"m","d">>, <<"m","a","r","k","d","o","w","n">>, <<"h","t","m","l">>,
            <<"h","t","m">>, <<"r","t","f">>, <<"e","p","u","b">>, <<"t","e","x">>,
            <<"r","s","t">>}
      [] c = "Presentation" ->
           {<<"p","p","t","x">>, <<"p","p","t">>, <<"o","d","p">>, <<"p","p","s","x">>,
            <<"p","p","s">>}

supported_output_formats(c) ==
    CASE c = "Image" ->
           {<<"p","n","g">>, <<"j","p","g">>, <<"j","p","e","g">>, <<"w","e","b","p">>,
            <<"b","m","p">>, <<"g","i","f">>, <<"t","i","f","f">>, <<"i","c","o">>}
      [] c = "Audio" ->
           {<<"m","p","3">>, <<"w","a","v">>, <<"f","l","a","c">>, <<"o","g","g">>,
            <<"m","4","a">>, <<"a","a","c">>, <<"o","p","u","s">>}
      [] c = "Video" ->
           {<<"m","p","4">>, <<"w","e","b","m">>, <<"m","k","v">>, <<"a","v","i">>,
            <<"m","o","v">>, <<"g","i","f">>}
      [] c = "Document" ->
           {<<"d","o","c","x">>, <<"o","d","t">>, <<"p","d","f">>, <<"t","x","t">>,
            <<"m","d">>, <<"h","t","m","l">>, <<"r","t","f">>, <<"e","p","u","b">>,
            <<"t","e","x">>}
      [] c = "Presentation" ->
           {<<"p","d","f">>, <<"p","n","g">>, <<"j","p","g">>, <<"o","d","p">>,
            <<"p","p","t","x">>}

\* can_convert comparing the formats as given (no lower-casing)
can_convert_no_lower(c, input_format, output_format) ==
    /\ LStripDot(input_format) \in supported_input_formats(c)
    /\ LStripDot(output_format) \in supported_output_formats(c)

\* BaseConverter.can_convert
can_convert(c, input_format, output_format) ==
    LET input_fmt == LStripDot(StrLower(input_format))
        output_fmt == LStripDot(StrLower(output_format))
    IN  /\ input_fmt \in supported_input_formats(c)
        /\ output_fmt \in supported_output_formats(c)

\* ConversionOptions: the fields the orchestration reads; None stands for
\* "options not given", replaced in convert() by the defaults
DefaultOptions == [output_dir |-> None, overwrite |-> FALSE,
                   width |-> None, height |-> None, fps |-> None,
                   video_codec |-> None, video_bitrate |-> None,
                   audio_codec |-> None, audio_bitrate |-> None,
                   sample_rate |-> None]

\* Python truth of an optional option value: None and 0 are false
Truthy(v) == v # None /\ Get(v) # "0"

\* `value or default`
OrElse(v, default) == IF Truthy(v) THEN v ELSE default

\* get_output_path appending the format as given
get_output_path_raw(input_path, output_format, options) ==
    [parent |-> IF options # None /\ Get(options).output_dir # None
                THEN Get(Get(options).output_dir)
                ELSE input_path.parent,
     name |-> PathStem(input_path.name) \o <<".">> \o output_format]

\* BaseConverter.get_output_path
get_output_path(input_path, output_format, options) ==
    LET output_dir ==
            IF options # None /\ Get(options).output_dir # None
            THEN Get(Get(options).output_dir)
            ELSE input_path.parent
        output_name ==
            PathStem(input_path.name) \o <<".">> \o LStripDot(StrLower(output_format))
    IN  [parent |-> output_dir, name |-> output_name]

\* progress fractions are held in ten-thousandths: Pct(n) is n/100
Pct(n) == 100 * n

\* min(1.0, max(0.0, progress))
Clamp(progress) ==
    IF progress < 0 THEN 0 ELSE IF progress > Pct(100) THEN Pct(100) ELSE progress

\* a converter that reports whether a callback is registered or not
report_progress_unconditional(w, env, progress) ==
    [w EXCEPT !.progress = Append(@, Clamp(progress))]

\* BaseConverter._report_progress: the clamped fraction goes to the
\* registered callback; nothing happens when none is registered.  w.progress
\* is what the callback has received
report_progress(w, env, progress) ==
    IF env.callback THEN [w EXCEPT !.progress = Append(@, Clamp(progress))]
    ELSE w

\* a progress function that adds the backend's fraction to the 20% unscaled
BandUnscaled(progress) ==
    Pct(20) + progress

\* a progress band without the 20% already reported
BandFromZero(progress) ==
    (3 * progress) \div 4

\* the progress function the audio and video converters pass to the backend:
\* backend progress is rescaled into the band from 20% to 95%
Band(progress) ==
    Pct(20) + (3 * progress) \div 4

----------------------------------------------------------------------------
(* The collaborators: file system, Dependency Locator, external processes  *)
(*                                                                         *)
(* An operation takes the world w it runs in and returns                   *)
(*   [w |-> the world afterwards, exc |-> the exception it raised (None    *)
(*    when it returned), ret |-> what it returned].                        *)
(* w.spawned, w.written, w.made and w.bcalls record what a conversion did; *)
(* they start empty at each conversion.                                    *)

Tools == {"ffmpeg", "ffprobe", "pandoc", "libreoffice"}

\* the tools the Dependency Locator resolves (ffprobe is looked for beside
\* ffmpeg by the backend itself)
LocatedTools == {"ffmpeg", "pandoc", "libreoffice"}

\* the element of a one-element set; {e(x) : x \in {step}} names the result
\* of a step once, evaluated before what follows it, as the statements of the
\* code are
The(S) == CHOOSE v \in S : TRUE

Ret(w, v) == [w |-> w, exc |-> None, ret |-> v]

\* raising an exception; w.faults notes the kinds of error raised during a
\* conversion, whoever catches them
Raise(w, kind, msg) ==
    [w |-> [w EXCEPT !.faults = @ \cup {kind}], exc |-> Some(msg), ret |-> << >>]

\* what one external process does: how it ends, whether it wrote the file it
\* was asked for, and the text on its streams
RunOutcomes ==
    {[exit |-> "zero", wrote |-> b, stderr |-> << >>, stdout |-> << >>] :
        b \in BOOLEAN}
    \cup {[exit |-> "nonzero", wrote |-> FALSE, stderr |-> e, stdout |-> o] :
            e \in {<< >>, <<"E">>}, o \in {<< >>, <<"O">>}}
    \cup {[exit |-> k, wrote |-> FALSE, stderr |-> << >>, stdout |-> << >>] :
            k \in {"timeout", "oserror"}}

\* a process without a time budget cannot time out
StreamOutcomes == {o \in RunOutcomes : o.exit # "timeout"}

\* Path.mkdir(parents=True, exist_ok=True): nothing to do for a directory that
\* exists; creating a missing one succeeds or raises OSError
Mkdir(w, env, d) ==
    IF d \in w.dirs THEN Ret(w, TRUE)
    ELSE IF env.mkdir_ok
         THEN Ret([w EXCEPT !.dirs = @ \cup {d}, !.made = @ \cup {d}], TRUE)
         ELSE Raise(w, "mkdir", <<"OSError: cannot create directory">>)

\* a runner that waits for the process however long it takes: a process that
\* overruns its budget is waited for and taken as finished
RunProcessUnbounded(w, tool, timeout, o, target) ==
    LET launched == [w EXCEPT !.spawned =
                        Append(@, [tool |-> tool, purpose |-> "job",
                                   timeout |-> timeout,
                                   exit |-> o.exit, wrote |-> o.wrote,
                                   stderr |-> o.stderr, stdout |-> o.stdout])]
    IN  IF o.exit = "oserror"
        THEN Raise(launched, "spawn", <<"OSError: cannot execute">>)
        ELSE Ret(launched, [o EXCEPT !.exit = IF @ = "timeout" THEN "zero" ELSE @])

\* subprocess.run / subprocess.Popen + wait: the launch is recorded in
\* w.spawned; the process writes `target` when its outcome says so
RunProcess(w, tool, timeout, o, target) ==
    LET launched == [w EXCEPT !.spawned =
                        Append(@, [tool |-> tool, purpose |-> "job",
                                   timeout |-> timeout,
                                   exit |-> o.exit, wrote |-> o.wrote,
                                   stderr |-> o.stderr, stdout |-> o.stdout])]
    IN  IF o.exit = "oserror"
        THEN Raise(launched, "spawn", <<"OSError: cannot execute">>)
        ELSE IF o.exit = "timeout"
        THEN Raise(launched, "timeout", <<"Command timed out">>)
        ELSE Ret(IF o.wrote /\ target.parent \in w.dirs
                 THEN [launched EXCEPT !.fs = @ \cup {target},
                                       !.written = @ \cup {target}]
                 ELSE launched,
                 o)

\* a locator that searches for the tool at every call, whatever it has cached
get_path_uncached(w, env, tool) ==
    IF env.located[tool] = "raises"
    THEN Raise(w, "lookup", <<"lookup error">>)
    ELSE IF env.located[tool] = "present"
    THEN Ret([w EXCEPT !.cache[tool] = "present",
                       !.spawned = Append(@, [tool |-> tool, purpose |-> "version",
                                              timeout |-> Some(10),
                                              exit |-> "ignored", wrote |-> FALSE])],
             TRUE)
    ELSE Ret([w EXCEPT !.cache[tool] = "absent"], FALSE)

\* DependencyChecker.check_ffmpeg / check_pandoc / check_libreoffice behind
\* get_*_path: the cached answer when there is one; otherwise the executable
\* is searched for, and when found its version is queried by launching it
\* (the outcome of that launch does not change the answer); the answer is
\* cached.  The search itself can raise (Path.exists on a directory that
\* may not be read, Path.home without a home directory); nothing is cached
\* then
get_path(w, env, tool) ==
    IF w.cache[tool] # "unknown" THEN Ret(w, w.cache[tool] = "present")
    ELSE IF env.located[tool] = "raises"
    THEN Raise(w, "lookup", <<"lookup error">>)
    ELSE IF env.located[tool] = "present"
    THEN Ret([w EXCEPT !.cache[tool] = "present",
                       !.spawned = Append(@, [tool |-> tool, purpose |-> "version",
                                              timeout |-> Some(10),
                                              exit |-> "ignored", wrote |-> FALSE])],
             TRUE)
    ELSE Ret([w EXCEPT !.cache[tool] = "absent"], FALSE)

\* DependencyInfo: name, availability and path (present iff available) of a
\* tool, as cached; v is "present" or "absent"
DependencyInfo(tool, v) ==
    [name |-> tool, available |-> v = "present",
     path |-> IF v = "present" THEN Some(tool) ELSE None]

\* DependencyChecker.check_ffmpeg / check_pandoc / check_libreoffice: the
\* DependencyInfo, cached or resolved now
check_tool(w, env, tool) ==
    The({IF g.exc # None THEN g
         ELSE Ret(g.w, DependencyInfo(tool, g.w.cache[tool])) :
         g \in {get_path(w, env, tool)}})

\* DependencyChecker.clear_cache: the entries of all tools are dropped
clear_cache(w) == [w EXCEPT !.cache = [t \in LocatedTools |-> "unknown"]]

\* a backend that takes its tool for present without asking
CachedPathAssumed(w, env, tool) == Ret(w, TRUE)

\* a backend that keeps whatever the first lookup gave as a path
CachedPathEager(w, env, tool) ==
    IF w.path[tool] THEN Ret(w, TRUE)
    ELSE The({IF g.exc # None THEN g
              ELSE Ret([g.w EXCEPT !.path[tool] = TRUE], g.ret) :
              g \in {get_path(w, env, tool)}})

\* the lazily resolved, cached executable path of a backend
\* (FFmpegBackend.ffmpeg_path, PandocBackend.pandoc_path,
\* LibreOfficeBackend.soffice_path): asked of the Dependency Locator while the
\* cached value is None
CachedPath(w, env, tool) ==
    IF w.path[tool] THEN Ret(w, TRUE)
    ELSE The({IF g.exc # None THEN g
              ELSE Ret([g.w EXCEPT !.path[tool] = g.ret], g.ret) :
              g \in {get_path(w, env, tool)}})

\* is_available() of a backend
is_available(w, env, tool) == CachedPath(w, env, tool)

\* the process a backend call launched last
LastSpawned(w) == w.spawned[Len(w.spawned)]

\* note of a backend call for the record: what it returned, how its process
\* ended ("none" when none was launched), what the process left on its
\* streams, and whether the file it was to produce is on disk as it returns
Noted(r, op, exit, expected) ==
    [r EXCEPT !.w.bcalls =
        Append(@, [op |-> op, success |-> r.ret.success, message |-> r.ret.message,
                   exit |-> exit, expected |-> expected,
                   present |-> expected \in r.w.fs,
                   ended |-> IF exit = "none" THEN "none"
                             ELSE LastSpawned(r.w).exit,
                   stderr |-> IF exit = "none" THEN << >>
                              ELSE LastSpawned(r.w).stderr,
                   stdout |-> IF exit = "none" THEN << >>
                              ELSE LastSpawned(r.w).stdout])]

\* the (success, message) of a backend call
Tuple2(success, message) == [success |-> success, message |-> message]

----------------------------------------------------------------------------
(* pandoc_backend.py                                                       *)

\* PandocBackend.convert
pandoc_convert(w, env, input_path, output_path) ==
    The({
    IF p.exc # None THEN p
    ELSE IF ~p.ret
    THEN Noted(Ret(p.w, [success |-> FALSE, message |-> <<"Pandoc not available">>]),
               "pandoc.convert", "none", output_path)
    ELSE The({
        IF m.exc # None
        THEN Noted(Ret(m.w, [success |-> FALSE, message |-> Get(m.exc)]),
                   "pandoc.convert", "none", output_path)
        ELSE The({
            IF r.exc # None /\ env.pandoc.exit = "timeout"
            THEN Noted(Ret(r.w, [success |-> FALSE,
                                 message |-> <<"Conversion timed out (>120s)">>]),
                       "pandoc.convert", "timeout", output_path)
            ELSE IF r.exc # None
            THEN Noted(Ret(r.w, [success |-> FALSE, message |-> Get(r.exc)]),
                       "pandoc.convert", env.pandoc.exit, output_path)
            ELSE IF r.ret.exit = "zero"
            THEN Noted(Ret(r.w, [success |-> TRUE,
                                 message |-> <<"Conversion successful">>]),
                       "pandoc.convert", "zero", output_path)
            ELSE Noted(Ret(r.w, [success |-> FALSE,
                                 message |-> <<"Pandoc error: ">> \o
                                     (IF r.ret.stderr # << >> THEN r.ret.stderr
                                      ELSE <<"Unknown error">>)]),
                       "pandoc.convert", "nonzero", output_path) :
            r \in {RunProcess(m.w, "pandoc", Some(120), env.pandoc, output_path)}}) :
        m \in {Mkdir(p.w, env, output_path.parent)}}) :
    p \in {CachedPath(w, env, "pandoc")}})

\* PandocBackend.convert_string: the content goes through the standard
\* streams of the process, no file is named
pandoc_convert_string(w, env) ==
    The({
    IF p.exc # None THEN p
    ELSE IF ~p.ret
    THEN Ret(p.w, Tuple2(FALSE, <<"Pandoc not available">>))
    ELSE The({
        IF r.exc # None THEN Ret(r.w, Tuple2(FALSE, Get(r.exc)))
        ELSE IF r.ret.exit = "zero" THEN Ret(r.w, Tuple2(TRUE, r.ret.stdout))
        ELSE Ret(r.w, Tuple2(FALSE, IF r.ret.stderr # << >> THEN r.ret.stderr
                                    ELSE <<"Unknown error">>)) :
        r \in {RunProcess(p.w, "pandoc", Some(30),
                          [env.pandoc EXCEPT !.wrote = FALSE],
                          [parent |-> "stdout", name |-> << >>])}}) :
    p \in {CachedPath(w, env, "pandoc")}})

----------------------------------------------------------------------------
(* libreoffice_backend.py                                                  *)

\* the extensions LibreOfficeBackend.convert looks for after the expected
\* file: [output_format, 'pdf', 'png'], in this order
AltExtensions(output_format) == <<output_format, <<"p","d","f">>, <<"p","n","g">>>>

\* the first alternative file that exists, or None
FirstExisting(files, output_dir, stem, exts) ==
    LET hits == {k \in 1..Len(exts) :
                   [parent |-> output_dir, name |-> stem \o <<".">> \o exts[k]]
                       \in files}
    IN  IF hits = {} THEN None
        ELSE LET k == CHOOSE h \in hits : \A g \in hits : h <= g
             IN  Some([parent |-> output_dir, name |-> stem \o <<".">> \o exts[k]])

\* the (success, output_path, message) of LibreOfficeBackend.convert
Tuple3(success, output_path, message) ==
    [success |-> success, output_path |-> output_path, message |-> message]

\* LibreOfficeBackend.convert; returns (success, output_path, message)
libreoffice_convert(w, env, input_path, output_format_raw, output_dir_opt) ==
    LET output_format == LStripDot(StrLower(output_format_raw))
        output_dir == IF output_dir_opt # None THEN Get(output_dir_opt)
                      ELSE input_path.parent
        expected_output ==
            [parent |-> output_dir,
             name |-> PathStem(input_path.name) \o <<".">> \o output_format]
    IN
    The({
    IF p.exc # None THEN p
    ELSE IF ~p.ret
    THEN Noted(Ret(p.w, Tuple3(FALSE, None, <<"LibreOffice not available">>)),
               "libreoffice.convert", "none", expected_output)
    ELSE The({
        IF m.exc # None THEN m
        ELSE The({
            IF r.exc # None /\ env.soffice.exit = "timeout"
            THEN Noted(Ret(r.w, Tuple3(FALSE, None, <<"Conversion timed out (>120s)">>)),
                       "libreoffice.convert", "timeout", expected_output)
            ELSE IF r.exc # None
            THEN Noted(Ret(r.w, Tuple3(FALSE, None, Get(r.exc))),
                       "libreoffice.convert", env.soffice.exit, expected_output)
            ELSE IF r.ret.exit = "zero"
            THEN The({
                 IF expected_output \in r.w.fs
                 THEN Noted(Ret(r.w, Tuple3(TRUE, Some(expected_output),
                                            <<"Conversion successful">>)),
                            "libreoffice.convert", "zero", expected_output)
                 ELSE IF alt # None
                 THEN Noted(Ret(r.w, Tuple3(TRUE, alt, <<"Conversion successful">>)),
                            "libreoffice.convert", "zero", expected_output)
                 ELSE Noted(Ret(r.w, Tuple3(FALSE, None,
                                            <<"Output file not found after conversion">>)),
                            "libreoffice.convert", "zero", expected_output) :
                 alt \in {FirstExisting(r.w.fs, output_dir, PathStem(input_path.name),
                                        AltExtensions(output_format))}})
            ELSE Noted(Ret(r.w, Tuple3(FALSE, None,
                                       <<"LibreOffice error: ">> \o
                                       (IF r.ret.stderr # << >> THEN r.ret.stderr
                                        ELSE IF r.ret.stdout # << >> THEN r.ret.stdout
                                        ELSE <<"Unknown error">>))),
                       "libreoffice.convert", "nonzero", expected_output) :
            r \in {RunProcess(m.w, "libreoffice", Some(120), env.soffice,
                              expected_output)}}) :
        m \in {Mkdir(p.w, env, output_dir)}}) :
    p \in {CachedPath(w, env, "libreoffice")}})

\* most pages of the intermediate PDF
MaxPages == 2

\* what the PDF rasteriser (pdf2image) does: missing module, an error while
\* reading the PDF, or n page images of which the save of page `fail_at`
\* raises (0: every save succeeds)
RasterOutcomes ==
    {[kind |-> k, pages |-> 0, fail_at |-> 0] : k \in {"import_error", "raises"}}
    \cup UNION {{[kind |-> "pages", pages |-> n, fail_at |-> f] : f \in 0..n} :
                    n \in 0..MaxPages}

SlidePath(output_dir, input_path, i, image_format) ==
    [parent |-> output_dir,
     name |-> PathStem(input_path.name) \o <<"_","s","l","i","d","e","_">>
              \o <<DigitChars[i]>> \o <<".">> \o image_format]

\* an exception raised and caught within one operation
Faulted(w, kind) == [w EXCEPT !.faults = @ \cup {kind}]

\* the temporary directory of tempfile.TemporaryDirectory()
TempDir == "tmp"

\* a block that leaves its temporary directory behind
LeaveTempBehind(w) ==
    w

\* leaving the `with tempfile.TemporaryDirectory()` block: the directory and
\* what it holds are removed
LeaveTemp(w) ==
    [w EXCEPT !.dirs = @ \ {TempDir},
              !.fs = {f \in @ : f.parent # TempDir}]

\* the (success, image paths, message) of convert_presentation_to_images
Images(success, paths, message) ==
    [success |-> success, paths |-> paths, message |-> message]

\* the format names the image library saves under: the values of the image
\* converter's FORMAT_MAP ("Format mappings for Pillow"); JPEG files are
\* saved under JPEG, and there is no format named JPG
PillowFormats ==
    {<<"J","P","E","G">>, <<"P","N","G">>, <<"W","E","B","P">>, <<"B","M","P">>,
     <<"G","I","F">>, <<"T","I","F","F">>, <<"I","C","O">>}

\* image.save(output_file, image_format.upper()) looks the handler up under
\* the name it is given and raises KeyError for a name that is not a format
SaveRaises(image_format) == StrUpper(image_format) \notin PillowFormats

\* the page images saved before the loop ends or a save raises
SavedPages(ro, image_format) ==
    IF ro.pages >= 1 /\ SaveRaises(image_format) THEN 0
    ELSE IF ro.fail_at \in 1..ro.pages THEN ro.fail_at - 1 ELSE ro.pages

\* note of a rasteriser call for the record: the pages it gave, and whether
\* the temporary directory and the intermediate PDF were there
Rastered(w, ro, pdf_path) ==
    [w EXCEPT !.rastered =
        Append(@, [kind |-> ro.kind, pages |-> ro.pages, fail_at |-> ro.fail_at,
                   temp |-> TempDir \in w.dirs,
                   pdf |-> pdf_path # None /\ Get(pdf_path) \in w.fs])]

\* the rasteriser and the save loop, inside the temporary directory
rasterise(w0, env, pdf_path, input_path, output_dir, image_format) ==
    LET ro == env.raster
        saved == {SlidePath(output_dir, input_path, i, image_format) :
                    i \in 1..SavedPages(ro, image_format)}
        w == IF ro.kind = "import_error" THEN w0 ELSE Rastered(w0, ro, pdf_path)
        after == [w EXCEPT !.fs = @ \cup saved, !.written = @ \cup saved]
    IN  IF ro.kind = "import_error"
        THEN Ret(Faulted(w, "raster"),
                 Images(FALSE, << >>,
                        <<"pdf2image not installed. Run: pip install pdf2image">>))
        ELSE IF ro.kind = "raises"
        THEN Ret(Faulted(w, "raster"),
                 Images(FALSE, << >>,
                        <<"Image conversion failed: ", "PDFPageCountError">>))
        ELSE IF SavedPages(ro, image_format) < ro.pages
        THEN Ret(Faulted(after, "save"),
                 Images(FALSE, << >>,
                        <<"Image conversion failed: ",
                          IF SaveRaises(image_format) THEN "KeyError"
                          ELSE "cannot save image">>))
        ELSE Ret(after,
                 Images(TRUE,
                        [i \in 1..ro.pages |->
                            SlidePath(output_dir, input_path, i, image_format)],
                        <<"Created ", "n", " images">>))

\* LibreOfficeBackend.convert_presentation_to_images;
\* returns (success, list of image paths, message)
convert_presentation_to_images(w, env, input_path, output_dir, image_format) ==
    The({
    IF p.exc # None THEN p
    ELSE IF ~p.ret
    THEN Ret(p.w, Images(FALSE, << >>, <<"LibreOffice not available">>))
    ELSE The({
        IF m.exc # None THEN m
        ELSE The({
            IF pdf.exc # None THEN [pdf EXCEPT !.w = LeaveTemp(pdf.w)]
            ELSE IF ~pdf.ret.success
            THEN Ret(LeaveTemp(pdf.w),
                     Images(FALSE, << >>,
                            <<"Failed to convert to PDF: ">> \o pdf.ret.message))
            ELSE The({Ret(LeaveTemp(x.w), x.ret) :
                      x \in {rasterise(pdf.w, env, pdf.ret.output_path, input_path,
                                       output_dir, image_format)}}) :
            pdf \in {libreoffice_convert([m.w EXCEPT !.dirs = @ \cup {TempDir}],
                                         env, input_path, <<"p","d","f">>,
                                         Some(TempDir))}}) :
        m \in {Mkdir(p.w, env, output_dir)}}) :
    p \in {CachedPath(w, env, "libreoffice")}})

----------------------------------------------------------------------------
(* ffmpeg_backend.py                                                       *)

\* what the metadata probe yields: no ffprobe beside ffmpeg, a probe that
\* fails, a duration, a duration of zero, or a duration field that is not a
\* number
ProbeOutcomes == {"noprobe", "fail", "duration", "zero", "garbage"}

\* FFmpegBackend.get_media_info: None without ffprobe; otherwise the probe is
\* launched, and whatever goes wrong with it is caught
get_media_info(w, env) ==
    IF env.probe = "noprobe" THEN Ret(w, None)
    ELSE Ret([w EXCEPT !.path["ffprobe"] = TRUE,
                       !.spawned =
                          Append(@, [tool |-> "ffprobe", purpose |-> "probe",
                                     timeout |-> Some(30),
                                     exit |-> IF env.probe = "fail"
                                              THEN "nonzero" ELSE "zero",
                                     wrote |-> FALSE])],
             IF env.probe = "fail" THEN None ELSE Some(env.probe))

\* FFmpegBackend._get_duration (with ffprobe_path and get_media_info): the
\* duration or None; float() raises ValueError on a field that is no number
get_duration(w, env) ==
    IF env.probe = "noprobe" THEN Ret(w, None)
    ELSE The({
        IF env.probe = "fail" THEN Ret(probed, None)
        ELSE IF env.probe = "garbage"
        THEN Raise(probed, "parse", <<"ValueError: could not convert string to float">>)
        ELSE Ret(probed, Some(env.probe)) :
        probed \in {[w EXCEPT !.path["ffprobe"] = TRUE,
                              !.spawned =
                                 Append(@, [tool |-> "ffprobe", purpose |-> "probe",
                                            timeout |-> Some(30),
                                            exit |-> IF env.probe = "fail"
                                                     THEN "nonzero" ELSE "zero",
                                            wrote |-> FALSE,
                                            printed |-> env.probe])]}})

\* an argument list is a sequence of arguments, each a sequence of text
\* pieces; `if value: cmd.extend([flag, value])`
Flag(flag, value) ==
    IF Truthy(value) THEN << <<flag>>, <<Get(value)>> >> ELSE << >>

\* the process is launched with the argument list cmd; w.cmds keeps the
\* argument lists of the FFmpeg jobs of a conversion
Launch(w, cmd) == [w EXCEPT !.cmds = Append(@, cmd)]

\* the fraction a line with the elapsed-time marker t gives:
\* min(current_time / duration, 1.0)
StreamFraction(t, duration) ==
    IF t < duration THEN (Pct(100) * t) \div duration ELSE Pct(100)

\* a duration test that takes any duration the probe printed, zero included
UsableIfProbed(duration) ==
    duration # None

\* `if progress_callback and duration`: None and 0.0 are false
Usable(duration) ==
    duration = Some("duration")

\* `for line in process.stderr`: the lines are read while the process runs;
\* each elapsed-time marker is turned into a fraction and handed to the
\* progress function, if one was passed and the duration is known and not
\* zero.  The function passed is the converter's, which reports the banded
\* fraction.  w.streams notes, per loop, the lines read and the fractions
\* handed to the progress function
Streamed(w, env, progress_callback, duration) ==
    The({
    [w EXCEPT !.streams = Append(@, [callback |-> progress_callback,
                                     duration |-> duration,
                                     seconds |-> env.duration,
                                     lines |-> env.markers,
                                     handed |-> handed]),
              !.progress = IF env.callback
                           THEN @ \o [i \in 1..Len(handed) |-> Clamp(Band(handed[i]))]
                           ELSE @] :
    handed \in {IF progress_callback /\ Usable(duration)
                THEN [i \in 1..Len(env.markers) |->
                         StreamFraction(env.markers[i], env.duration)]
                ELSE << >>}})

\* FFmpegBackend.convert_video and FFmpegBackend.convert_audio: the two run
\* the same steps on different argument lists
ffmpeg_transcode(w, env, op, progress_callback, cmd, input_path, output_path) ==
    The({
    IF p.exc # None THEN p
    ELSE IF ~p.ret
    THEN Noted(Ret(p.w, Tuple2(FALSE, <<"FFmpeg not available">>)),
               op, "none", output_path)
    ELSE The({
        IF d.exc # None
        THEN Noted(Ret(d.w, Tuple2(FALSE, Get(d.exc))), op, "none", output_path)
        ELSE The({
            IF r.exc # None
            THEN Noted(Ret(r.w, Tuple2(FALSE, Get(r.exc))),
                       op, env.ffmpeg.exit, output_path)
            ELSE IF r.ret.exit = "zero"
            THEN Noted(Ret(Streamed(r.w, env, progress_callback, d.ret),
                           Tuple2(TRUE, <<"Conversion successful">>)),
                       op, "zero", output_path)
            ELSE Noted(Ret(Streamed(r.w, env, progress_callback, d.ret),
                           Tuple2(FALSE, <<"FFmpeg exited with code ", "N">>)),
                       op, "nonzero", output_path) :
            r \in {RunProcess(Launch(d.w, cmd), "ffmpeg", None, env.ffmpeg,
                              output_path)}}) :
        d \in {get_duration(p.w, env)}}) :
    p \in {CachedPath(w, env, "ffmpeg")}})

\* the keyword arguments of convert_video left at their defaults
VideoDefaults ==
    [video_codec |-> None, audio_codec |-> None, video_bitrate |-> None,
     audio_bitrate |-> None, resolution |-> None, fps |-> None]

\* the keyword arguments of convert_audio left at their defaults
AudioDefaults == [audio_codec |-> None, bitrate |-> None, sample_rate |-> None]

\* FFmpegBackend.convert_video; kw are its keyword arguments, each flag is
\* added only for an argument that was given
convert_video(w, env, progress_callback, input_path, output_path, kw) ==
    ffmpeg_transcode(w, env, "ffmpeg.convert_video", progress_callback,
                     << <<"ffmpeg">>, <<"-i">>, <<"{input_path}">>, <<"-y">> >>
                        \o Flag("-c:v", kw.video_codec)
                        \o Flag("-c:a", kw.audio_codec)
                        \o Flag("-b:v", kw.video_bitrate)
                        \o Flag("-b:a", kw.audio_bitrate)
                        \o (IF kw.resolution # None
                            THEN << <<"-vf">>,
                                    <<"scale=", Get(kw.resolution)[1], ":",
                                      Get(kw.resolution)[2]>> >>
                            ELSE << >>)
                        \o Flag("-r", kw.fps)
                        \o << <<"{output_path}">> >>,
                     input_path, output_path)

\* FFmpegBackend.convert_audio
convert_audio(w, env, progress_callback, input_path, output_path, kw) ==
    ffmpeg_transcode(w, env, "ffmpeg.convert_audio", progress_callback,
                     << <<"ffmpeg">>, <<"-i">>, <<"{input_path}">>, <<"-y">>,
                        <<"-vn">> >>
                        \o Flag("-c:a", kw.audio_codec)
                        \o Flag("-b:a", kw.bitrate)
                        \o Flag("-ar", kw.sample_rate)
                        \o << <<"{output_path}">> >>,
                     input_path, output_path)

\* the argument list of video_to_gif
GifCmd(fps, width) ==
    << <<"ffmpeg">>, <<"-i">>, <<"{input_path}">>, <<"-y">>, <<"-vf">>,
       <<"fps=", fps, ",scale=", width, ":-1:flags=lanczos">>,
       <<"-loop">>, <<"0">>, <<"{output_path}">> >>

\* FFmpegBackend.video_to_gif
video_to_gif(w, env, input_path, output_path, fps, width) ==
    The({
    IF p.exc # None THEN p
    ELSE IF ~p.ret
    THEN Noted(Ret(p.w, Tuple2(FALSE, <<"FFmpeg not available">>)),
               "ffmpeg.video_to_gif", "none", output_path)
    ELSE The({
        IF r.exc # None
        THEN Noted(Ret(r.w, Tuple2(FALSE, Get(r.exc))),
                   "ffmpeg.video_to_gif", env.ffmpeg.exit, output_path)
        ELSE IF r.ret.exit = "zero"
        THEN Noted(Ret(r.w, Tuple2(TRUE, <<"GIF created successfully">>)),
                   "ffmpeg.video_to_gif", "zero", output_path)
        ELSE Noted(Ret(r.w, Tuple2(FALSE, r.ret.stderr)),
                   "ffmpeg.video_to_gif", "nonzero", output_path) :
        r \in {RunProcess(Launch(p.w, GifCmd(fps, width)), "ffmpeg", Some(300),
                          env.ffmpeg, output_path)}}) :
    p \in {CachedPath(w, env, "ffmpeg")}})

----------------------------------------------------------------------------
(* The five converters                                                     *)

\* ConversionResult(success=True, output_path=...)
Success(output_path) ==
    [success |-> TRUE, output_path |-> output_path, error_message |-> None]

\* ConversionResult(success=False, error_message=...)
Failure(msg) ==
    [success |-> FALSE, output_path |-> None, error_message |-> Some(msg)]

\* f"Output file already exists: {output_path}"
AlreadyExists == <<"Output file already exists: ", "{output_path}">>

\* `except Exception as e:` of a converter's convert: the exception becomes
\* a failure result carrying str(e)
ExceptHandler(r) ==
    IF r.exc # None THEN Ret(r.w, Failure(Get(r.exc))) ELSE r

\* `if output_path.exists() and not options.overwrite`
OverwriteRefused(w, output_path, options) ==
    output_path \in w.fs /\ ~options.overwrite

\* what a converter does with the (success, msg) of its backend call: it
\* reports completion, then builds the result
FromBackend(b, env, output_path) ==
    IF b.exc # None THEN b
    ELSE IF b.ret.success
    THEN Ret(report_progress(b.w, env, Pct(100)), Success(Some(output_path)))
    ELSE Ret(report_progress(b.w, env, Pct(100)), Failure(b.ret.message))

\* ImageConverter.convert, between opening the image and choosing the output
\* path: the colour mode is converted for a JPEG output of an image with
\* alpha or palette, the image is resized when a width is asked for
ImageSteps(w, env, output_format, options) ==
    The({IF Truthy(options.width) \/ Truthy(options.height)
         THEN report_progress(wc, env, Pct(40)) ELSE wc :
         wc \in {IF output_format \in {<<"j","p","g">>, <<"j","p","e","g">>}
                    /\ env.alpha
                 THEN report_progress(w, env, Pct(30)) ELSE w}})

\* ImageConverter.convert; the image library opens and saves the file
image_convert(w, env, input_path, output_format_raw, options) ==
    LET output_format == LStripDot(StrLower(output_format_raw))
        output_path == get_output_path(input_path, output_format, Some(options))
    IN  ExceptHandler(
            The({
            IF env.image = "open_fails"
            THEN Raise(w1, "image", <<"cannot identify image file">>)
            ELSE The({
                IF OverwriteRefused(w2, output_path, options)
                THEN Ret(w2, Failure(AlreadyExists))
                ELSE The({
                    IF m.exc # None THEN m
                    ELSE IF env.image = "save_fails"
                    THEN Raise(report_progress(m.w, env, Pct(60)), "image",
                               <<"cannot write image file">>)
                    ELSE Ret(report_progress(
                                [report_progress(m.w, env, Pct(60))
                                    EXCEPT !.fs = @ \cup {output_path},
                                           !.written = @ \cup {output_path}],
                                env, Pct(100)),
                             Success(Some(output_path))) :
                    m \in {Mkdir(w2, env, output_path.parent)}}) :
                w2 \in {ImageSteps(w1, env, output_format, options)}}) :
            w1 \in {report_progress(w, env, Pct(10))}}))

\* AudioConverter.FORMAT_CODECS.get(output_format)
AudioFormatCodecs(output_format) ==
    CASE output_format = <<"m","p","3">> -> Some("libmp3lame")
      [] output_format \in {<<"a","a","c">>, <<"m","4","a">>} -> Some("aac")
      [] output_format = <<"o","g","g">> -> Some("libvorbis")
      [] output_format = <<"f","l","a","c">> -> Some("flac")
      [] output_format = <<"w","a","v">> -> Some("pcm_s16le")
      [] output_format = <<"o","p","u","s">> -> Some("libopus")
      [] OTHER -> None

\* AudioConverter.FORMAT_BITRATES.get(output_format)
AudioFormatBitrates(output_format) ==
    CASE output_format \in {<<"m","p","3">>, <<"a","a","c">>, <<"m","4","a">>,
                            <<"o","g","g">>} -> Some("192k")
      [] output_format = <<"o","p","u","s">> -> Some("128k")
      [] OTHER -> None

\* the codec settings AudioConverter.convert passes to the backend
AudioSettings(output_format, options) ==
    [audio_codec |-> OrElse(options.audio_codec, AudioFormatCodecs(output_format)),
     bitrate |-> OrElse(options.audio_bitrate, AudioFormatBitrates(output_format)),
     sample_rate |-> options.sample_rate]

\* AudioConverter.convert
audio_convert(w, env, input_path, output_format_raw, options) ==
    LET output_format == LStripDot(StrLower(output_format_raw))
        output_path == get_output_path(input_path, output_format, Some(options))
    IN
    The({
    IF a.exc # None THEN a
    ELSE IF ~a.ret THEN Ret(a.w, Failure(<<"FFmpeg not available">>))
    ELSE ExceptHandler(
            The({
            IF OverwriteRefused(w1, output_path, options)
            THEN Ret(w1, Failure(AlreadyExists))
            ELSE The({
                IF m.exc # None THEN m
                ELSE FromBackend(convert_audio(report_progress(m.w, env, Pct(20)),
                                               env, TRUE, input_path, output_path,
                                               AudioSettings(output_format, options)),
                                 env, output_path) :
                m \in {Mkdir(w1, env, output_path.parent)}}) :
            w1 \in {report_progress(a.w, env, Pct(10))}})) :
    a \in {is_available(w, env, "ffmpeg")}})

\* VideoConverter.FORMAT_CODECS.get(output_format, {}) and .get('video'),
\* .get('audio')
VideoFormatCodecs(output_format) ==
    CASE output_format \in {<<"m","p","4">>, <<"m","k","v">>, <<"m","o","v">>} ->
            [video |-> Some("libx264"), audio |-> Some("aac")]
      [] output_format = <<"w","e","b","m">> ->
            [video |-> Some("libvpx-vp9"), audio |-> Some("libopus")]
      [] output_format = <<"a","v","i">> ->
            [video |-> Some("mpeg4"), audio |-> Some("mp3")]
      [] OTHER -> [video |-> None, audio |-> None]

\* the settings VideoConverter.convert passes to the generic transcode
VideoSettings(output_format, options) ==
    [video_codec |-> OrElse(options.video_codec,
                            VideoFormatCodecs(output_format).video),
     audio_codec |-> OrElse(options.audio_codec,
                            VideoFormatCodecs(output_format).audio),
     video_bitrate |-> options.video_bitrate,
     audio_bitrate |-> options.audio_bitrate,
     resolution |-> IF Truthy(options.width) /\ Truthy(options.height)
                    THEN Some(<<Get(options.width), Get(options.height)>>)
                    ELSE None,
     fps |-> options.fps]

\* a converter for which GIF is a format like the others
IsGifNever(output_format) ==
    FALSE

\* `if output_format == 'gif'`: GIF has a path of its own
IsGif(output_format) ==
    output_format = <<"g","i","f">>

\* VideoConverter.convert
video_convert(w, env, input_path, output_format_raw, options) ==
    LET output_format == LStripDot(StrLower(output_format_raw))
        output_path == get_output_path(input_path, output_format, Some(options))
    IN
    The({
    IF a.exc # None THEN a
    ELSE IF ~a.ret THEN Ret(a.w, Failure(<<"FFmpeg not available">>))
    ELSE ExceptHandler(
            The({
            IF OverwriteRefused(w1, output_path, options)
            THEN Ret(w1, Failure(AlreadyExists))
            ELSE The({
                IF m.exc # None THEN m
                ELSE IF IsGif(output_format)
                THEN FromBackend(video_to_gif(report_progress(m.w, env, Pct(20)),
                                              env, input_path, output_path,
                                              Get(OrElse(options.fps, Some("10"))),
                                              Get(OrElse(options.width, Some("480")))),
                                 env, output_path)
                ELSE FromBackend(convert_video(report_progress(m.w, env, Pct(20)),
                                               env, TRUE, input_path, output_path,
                                               VideoSettings(output_format, options)),
                                 env, output_path) :
                m \in {Mkdir(w1, env, output_path.parent)}}) :
            w1 \in {report_progress(a.w, env, Pct(10))}})) :
    a \in {is_available(w, env, "ffmpeg")}})

PANDOC_FORMATS ==
    {<<"m","d">>, <<"m","a","r","k","d","o","w","n">>, <<"t","x","t">>,
     <<"h","t","m","l">>, <<"h","t","m">>, <<"r","s","t">>, <<"o","r","g">>,
     <<"t","e","x">>, <<"l","a","t","e","x">>, <<"e","p","u","b">>}

LIBREOFFICE_FORMATS ==
    {<<"d","o","c","x">>, <<"d","o","c">>, <<"o","d","t">>, <<"r","t","f">>}

\* the output formats of rule 2: ('pdf', 'docx', 'doc', 'odt')
OfficeOutputs ==
    {<<"p","d","f">>, <<"d","o","c","x">>, <<"d","o","c">>, <<"o","d","t">>}

\* `success, out_path, msg = libreoffice_backend.convert(...)` followed by
\* `return success, msg`: the path LibreOffice reports is dropped
DropPath(r) ==
    IF r.exc # None THEN r
    ELSE Ret(r.w, [success |-> r.ret.success, message |-> r.ret.message])

\* a last resort that hands the file to LibreOffice without asking whether
\* LibreOffice is there
fallback_unchecked(w, env, input_path, output_path, output_format) ==
    DropPath(libreoffice_convert(w, env, input_path, output_format,
                                 Some(output_path.parent)))

\* the fallback of _convert_with_best_backend once Pandoc has been tried or
\* found unavailable: LibreOffice if available, else no backend
fallback_libreoffice(w, env, input_path, output_path, output_format) ==
    The({
    IF l2.exc # None THEN l2
    ELSE IF l2.ret
    THEN DropPath(libreoffice_convert(l2.w, env, input_path, output_format,
                                      Some(output_path.parent)))
    ELSE Ret(l2.w, Tuple2(FALSE,
                          <<"No suitable backend available for this conversion">>)) :
    l2 \in {is_available(w, env, "libreoffice")}})

\* a fallback that hands the file to LibreOffice before it thinks of Pandoc
fallback_office_first(w, env, input_path, output_path, output_format) ==
    The({
    IF l2.exc # None THEN l2
    ELSE IF ~l2.ret
    THEN The({
         IF p2.exc # None THEN p2
         ELSE IF p2.ret THEN pandoc_convert(p2.w, env, input_path, output_path)
         ELSE Ret(p2.w, Tuple2(FALSE,
                               <<"No suitable backend available for this conversion">>)) :
         p2 \in {is_available(l2.w, env, "pandoc")}})
    ELSE The({
        IF lc.exc # None THEN lc
        ELSE IF lc.ret.success THEN lc
        ELSE The({
             IF p2.exc # None THEN p2
             ELSE IF p2.ret THEN pandoc_convert(p2.w, env, input_path, output_path)
             ELSE lc :
             p2 \in {is_available(lc.w, env, "pandoc")}}) :
        lc \in {DropPath(libreoffice_convert(l2.w, env, input_path, output_format,
                                             Some(output_path.parent)))}}) :
    l2 \in {is_available(w, env, "libreoffice")}})

\* a fallback that tries Pandoc once more when LibreOffice has failed
fallback_pandoc_again(w, env, input_path, output_path, output_format) ==
    The({
    IF p2.exc # None THEN p2
    ELSE IF ~p2.ret
    THEN fallback_libreoffice(p2.w, env, input_path, output_path, output_format)
    ELSE The({
        IF pc.exc # None THEN pc
        ELSE IF pc.ret.success THEN pc
        ELSE The({
             IF lc.exc # None \/ lc.ret.success THEN lc
             ELSE pandoc_convert(lc.w, env, input_path, output_path) :
             lc \in {fallback_libreoffice(pc.w, env, input_path, output_path,
                                          output_format)}}) :
        pc \in {pandoc_convert(p2.w, env, input_path, output_path)}}) :
    p2 \in {is_available(w, env, "pandoc")}})

\* the fallback of _convert_with_best_backend: Pandoc first, then LibreOffice
fallback(w, env, input_path, output_path, output_format) ==
    The({
    IF p2.exc # None THEN p2
    ELSE IF ~p2.ret
    THEN fallback_libreoffice(p2.w, env, input_path, output_path, output_format)
    ELSE The({
        IF pc.exc # None THEN pc
        ELSE IF pc.ret.success THEN pc
        ELSE fallback_libreoffice(pc.w, env, input_path, output_path,
                                  output_format) :
        pc \in {pandoc_convert(p2.w, env, input_path, output_path)}}) :
    p2 \in {is_available(w, env, "pandoc")}})

\* a first rule that looks at the input format only
PrefersPandocByInput(input_format, output_format) ==
    input_format \in PANDOC_FORMATS

\* the test of the first rule: "Prefer Pandoc for text-based formats"
PrefersPandoc(input_format, output_format) ==
    input_format \in PANDOC_FORMATS \/ output_format \in PANDOC_FORMATS

\* the test of the second rule: "Prefer LibreOffice for Office formats and
\* PDF output"
PrefersLibreOffice(input_format, output_format) ==
    input_format \in LIBREOFFICE_FORMATS \/ output_format \in OfficeOutputs

\* DocumentConverter._convert_with_best_backend
convert_with_best_backend(w, env, input_path, output_path, input_format, output_format) ==
    LET rule1 == PrefersPandoc(input_format, output_format)
        rule2 == PrefersLibreOffice(input_format, output_format)
    IN
    The({
    IF p1.exc # None THEN p1
    ELSE IF p1.ret THEN pandoc_convert(p1.w, env, input_path, output_path)
    ELSE The({
        IF l1.exc # None THEN l1
        ELSE IF l1.ret
        THEN DropPath(libreoffice_convert(l1.w, env, input_path, output_format,
                                          Some(output_path.parent)))
        ELSE fallback(l1.w, env, input_path, output_path, output_format) :
        l1 \in {IF rule2 THEN is_available(p1.w, env, "libreoffice")
                ELSE Ret(p1.w, FALSE)}}) :
    p1 \in {IF rule1 THEN is_available(w, env, "pandoc") ELSE Ret(w, FALSE)}})

\* DocumentConverter.convert
document_convert(w, env, input_path, output_format_raw, options) ==
    LET output_format == LStripDot(StrLower(output_format_raw))
        input_ext == LStripDot(StrLower(PathSuffix(input_path.name)))
        output_path == get_output_path(input_path, output_format, Some(options))
    IN  ExceptHandler(
            The({
            IF OverwriteRefused(w1, output_path, options)
            THEN Ret(w1, Failure(AlreadyExists))
            ELSE The({
                IF m.exc # None THEN m
                ELSE FromBackend(
                        convert_with_best_backend(report_progress(m.w, env, Pct(30)),
                                                  env, input_path, output_path,
                                                  input_ext, output_format),
                        env, output_path) :
                m \in {Mkdir(w1, env, output_path.parent)}}) :
            w1 \in {report_progress(w, env, Pct(10))}}))

\* the image outputs of a presentation: ('png', 'jpg', 'jpeg')
SlideImageFormats == {<<"p","n","g">>, <<"j","p","g">>, <<"j","p","e","g">>}

\* PresentationConverter._convert_to_images
convert_to_images(w, env, input_path, output_dir, output_format) ==
    The({
    IF c.exc # None THEN c
    ELSE IF c.ret.success /\ c.ret.paths # << >>
    THEN Ret(report_progress(c.w, env, Pct(100)), Success(Some(c.ret.paths[1])))
    ELSE Ret(report_progress(c.w, env, Pct(100)), Failure(c.ret.message)) :
    c \in {convert_presentation_to_images(report_progress(w, env, Pct(20)), env,
                                          input_path, output_dir, output_format)}})

\* the result PresentationConverter.convert builds from the
\* (success, output_path, msg) of LibreOffice
FromLibreOffice(lc, env) ==
    IF lc.exc # None THEN lc
    ELSE IF lc.ret.success
    THEN Ret(report_progress(lc.w, env, Pct(100)), Success(lc.ret.output_path))
    ELSE Ret(report_progress(lc.w, env, Pct(100)), Failure(lc.ret.message))

\* PresentationConverter.convert
presentation_convert(w, env, input_path, output_format_raw, options) ==
    LET output_format == LStripDot(StrLower(output_format_raw))
        output_dir == IF options.output_dir # None THEN Get(options.output_dir)
                      ELSE input_path.parent
    IN
    The({
    IF a.exc # None THEN a
    ELSE IF ~a.ret THEN Ret(a.w, Failure(<<"LibreOffice not available">>))
    ELSE ExceptHandler(
            The({
            IF m.exc # None THEN m
            ELSE IF output_format \in SlideImageFormats
            THEN convert_to_images(m.w, env, input_path, output_dir, output_format)
            ELSE FromLibreOffice(
                    libreoffice_convert(report_progress(m.w, env, Pct(30)), env,
                                        input_path, output_format, Some(output_dir)),
                    env) :
            m \in {Mkdir(report_progress(a.w, env, Pct(10)), env, output_dir)}})) :
    a \in {is_available(w, env, "libreoffice")}})

\* the (ok, message) of validate_dependencies
Validity(ok, message) == [ok |-> ok, message |-> message]

\* DocumentConverter.validate_dependencies: both backends are asked
document_validate(w, env) ==
    The({
    IF p.exc # None THEN p
    ELSE The({
        IF l.exc # None THEN l
        ELSE IF p.ret /\ l.ret
        THEN Ret(l.w, Validity(TRUE, <<"Pandoc and LibreOffice available">>))
        ELSE IF p.ret
        THEN Ret(l.w, Validity(TRUE,
                      <<"Pandoc available (some formats may be limited)">>))
        ELSE IF l.ret
        THEN Ret(l.w, Validity(TRUE,
                      <<"LibreOffice available (some formats may be limited)">>))
        ELSE Ret(l.w, Validity(FALSE, <<"Neither Pandoc nor LibreOffice found">>)) :
        l \in {is_available(p.w, env, "libreoffice")}}) :
    p \in {is_available(w, env, "pandoc")}})

\* validate_dependencies of the converter of category c
validate_dependencies(w, env, c) ==
    CASE c = "Image" -> Ret(w, Validity(TRUE, <<"Pillow ", "version", " available">>))
      [] c = "Audio" ->
           The({IF a.exc # None THEN a
                ELSE IF a.ret THEN Ret(a.w, Validity(TRUE, <<"FFmpeg available">>))
                ELSE Ret(a.w, Validity(FALSE,
                              <<"FFmpeg not found. Please install FFmpeg.">>)) :
                a \in {is_available(w, env, "ffmpeg")}})
      [] c = "Video" ->
           The({IF a.exc # None THEN a
                ELSE IF a.ret
                THEN Ret(get_media_info(a.w, env).w,
                         Validity(TRUE, <<"FFmpeg available">>))
                ELSE Ret(a.w, Validity(FALSE,
                              <<"FFmpeg not found. Please install FFmpeg.">>)) :
                a \in {is_available(w, env, "ffmpeg")}})
      [] c = "Document" -> document_validate(w, env)
      [] c = "Presentation" ->
           The({IF a.exc # None THEN a
                ELSE IF a.ret THEN Ret(a.w, Validity(TRUE, <<"LibreOffice available">>))
                ELSE Ret(a.w, Validity(FALSE,
                              <<"LibreOffice not found. Please install LibreOffice.">>)) :
                a \in {is_available(w, env, "libreoffice")}})

----------------------------------------------------------------------------
(* registry.py: ConverterRegistry                                          *)

\* Converter instances a caller may hold.  Two instances of one class are
\* different objects (no converter defines __eq__), and both accept the same
\* format pairs.
Instances == {"image1", "video1", "audio1", "document1", "video2"}

ClassOf(inst) ==
    CASE inst = "image1" -> "Image"
      [] inst = "video1" -> "Video"
      [] inst = "video2" -> "Video"
      [] inst = "audio1" -> "Audio"
      [] inst = "document1" -> "Document"

\* list.remove(x): the first occurrence is removed
RECURSIVE ListRemove(_, _)
ListRemove(list, x) ==
    IF list = << >> THEN << >>
    ELSE IF Head(list) = x THEN Tail(list)
    ELSE <<Head(list)>> \o ListRemove(Tail(list), x)

\* register putting the new converter in front of the list
RegisterInFront(list, converter) ==
    IF converter \notin Range(list) THEN <<converter>> \o list ELSE list

\* register without the membership test
RegisterUnchecked(list, converter) == Append(list, converter)

\* ConverterRegistry.register
RegistryRegister(list, converter) ==
    IF converter \notin Range(list) THEN Append(list, converter) ELSE list

\* ConverterRegistry.unregister
RegistryUnregister(list, converter) ==
    IF converter \in Range(list) THEN ListRemove(list, converter) ELSE list

\* ConverterRegistry.clear
RegistryClear(list) == << >>

\* ConverterRegistry.get_converters
get_converters(list, category) ==
    IF category = None THEN list
    ELSE SelectSeq(list, LAMBDA c : ClassOf(c) = Get(category))

RECURSIVE find_converter(_, _, _)
\* ConverterRegistry.find_converter: the first converter of the list that
\* can_convert, or None
find_converter(list, input_format, output_format) ==
    IF list = << >> THEN None
    ELSE IF can_convert(ClassOf(Head(list)), input_format, output_format)
         THEN Some(Head(list))
         ELSE find_converter(Tail(list), input_format, output_format)

RECURSIVE find_converter_for_file(_, _)
\* ConverterRegistry.find_converter_for_file
find_converter_for_file(list, file_path) ==
    LET ext == LStripDot(StrLower(PathSuffix(file_path.name)))
    IN  IF list = << >> THEN None
        ELSE IF ext \in supported_input_formats(ClassOf(Head(list)))
             THEN Some(Head(list))
             ELSE find_converter_for_file(Tail(list), file_path)

\* ConverterRegistry.get_supported_input_formats
get_supported_input_formats(list) ==
    UNION {supported_input_formats(ClassOf(list[i])) : i \in 1..Len(list)}

\* ConverterRegistry.get_supported_output_formats
get_supported_output_formats(list, input_format) ==
    LET input_fmt == LStripDot(StrLower(input_format))
    IN  UNION {supported_output_formats(ClassOf(list[i])) :
                 i \in {j \in 1..Len(list) :
                          input_fmt \in supported_input_formats(ClassOf(list[j]))}}

\* Format strings the registry is queried with (raw, as a caller passes them)
QueryInputs == {<<"m","p","4">>, <<".","M","P","4">>, <<"p","n","g">>, <<"x","y","z">>}

QueryOutputFormats == {<<"w","e","b","m">>, <<"G","I","F">>, <<"m","p","3">>}

RegInit ==
    /\ converters = << >>
    /\ regOrder = << >>
    /\ lastOp = [kind |-> "init", arg |-> None, query |-> << >>,
                 before |-> << >>, answer |-> None]

Register(c) ==
    /\ converters' = RegistryRegister(converters, c)
    /\ regOrder' = IF c \in Range(regOrder) THEN regOrder ELSE Append(regOrder, c)
    /\ lastOp' = [kind |-> "register", arg |-> Some(c), query |-> << >>,
                  before |-> converters, answer |-> None]
    /\ UNCHANGED <<convVars, pureVars, depVars, progVars>>

Unregister(c) ==
    /\ converters' = RegistryUnregister(converters, c)
    /\ regOrder' = SelectSeq(regOrder, LAMBDA x : x # c)
    /\ lastOp' = [kind |-> "unregister", arg |-> Some(c), query |-> << >>,
                  before |-> converters, answer |-> None]
    /\ UNCHANGED <<convVars, pureVars, depVars, progVars>>

Clear ==
    /\ converters' = RegistryClear(converters)
    /\ regOrder' = << >>
    /\ lastOp' = [kind |-> "clear", arg |-> None, query |-> << >>,
                  before |-> converters, answer |-> None]
    /\ UNCHANGED <<convVars, pureVars, depVars, progVars>>

\* a lookup: find_converter(i, o); the registry is only read
FindConverter(i, o) ==
    /\ lastOp' = [kind |-> "find", arg |-> None, query |-> <<i, o>>,
                  before |-> converters,
                  answer |-> find_converter(converters, i, o)]
    /\ UNCHANGED <<converters, regOrder, convVars, pureVars, depVars, progVars>>

\* an aggregation query: get_supported_output_formats(i); the registry is
\* only read.  The answer recorded is whether anything is reachable.
QueryOutputs(i) ==
    /\ lastOp' = [kind |-> "outputs", arg |-> None, query |-> <<i>>,
                  before |-> converters,
                  answer |-> IF get_supported_output_formats(converters, i) # {}
                             THEN Some("some") ELSE None]
    /\ UNCHANGED <<converters, regOrder, convVars, pureVars, depVars, progVars>>

RegNext ==
    \/ \E c \in Instances : Register(c)
    \/ \E c \in Instances : Unregister(c)
    \/ Clear
    \/ \E i \in QueryInputs, o \in QueryOutputFormats : FindConverter(i, o)
    \/ \E i \in QueryInputs : QueryOutputs(i)

----------------------------------------------------------------------------
(* The pure helpers of the contract, applied to enumerated arguments       *)

\* most leading dots a caller writes before a format
MaxDots == 2

\* format words: declared formats of every converter, an undeclared one and
\* the empty string
FormatWords ==
    {<<"p","n","g">>, <<"j","p","g">>, <<"m","p","3">>, <<"m","p","4">>,
     <<"g","i","f">>, <<"m","d">>, <<"p","d","f">>, <<"p","p","t","x">>,
     <<"x","y","z">>, << >>}

Capitalize(w) == IF w = << >> THEN w ELSE <<CharUpper(Head(w))>> \o Tail(w)

Dots(k) == [i \in 1..k |-> "."]

\* the raw format strings a caller passes: any case, leading dots
RawFormats ==
    {Dots(k) \o v : k \in 0..MaxDots,
                    v \in UNION {{w, StrUpper(w), Capitalize(w)} : w \in FormatWords}}

InputPaths ==
    {[parent |-> "in", name |-> n] :
        n \in {<<"f",".","b","m","p">>, <<"a",".","b",".","m","d">>,
               <<"n","o","t","e","s">>, <<".","h","i","d","e">>}}

OptionChoices ==
    {None} \cup {Some([DefaultOptions EXCEPT !.output_dir = d]) :
                    d \in {None, Some("out")}}

PureInputs ==
    {[op |-> "can_convert", conv |-> c, input_format |-> i, output_format |-> o,
      input_path |-> [parent |-> "in", name |-> << >>], options |-> None] :
        c \in Categories, i \in RawFormats, o \in RawFormats}
    \cup
    {[op |-> "get_output_path", conv |-> "Image", input_format |-> << >>,
      output_format |-> o, input_path |-> p, options |-> opt] :
        o \in RawFormats, p \in InputPaths, opt \in OptionChoices}

NoOutput == [can |-> FALSE, path |-> None]

PureInit ==
    /\ pin \in PureInputs
    /\ pout = None

CallCanConvert ==
    /\ pout = None
    /\ pin.op = "can_convert"
    /\ pout' = Some([NoOutput EXCEPT
                       !.can = can_convert(pin.conv, pin.input_format,
                                           pin.output_format)])
    /\ UNCHANGED <<pin, convVars, regVars, depVars, progVars>>

CallGetOutputPath ==
    /\ pout = None
    /\ pin.op = "get_output_path"
    /\ pout' = Some([NoOutput EXCEPT
                       !.path = Some(get_output_path(pin.input_path,
                                                     pin.output_format,
                                                     pin.options))])
    /\ UNCHANGED <<pin, convVars, regVars, depVars, progVars>>

PureNext == CallCanConvert \/ CallGetOutputPath

\* idle values of the variables a specification does not use
ConvIdle ==
    /\ fs = {}
    /\ dirs = {}
    /\ path = [t \in Tools |-> FALSE]
    /\ cache = [t \in LocatedTools |-> "unknown"]
    /\ call = None

RegIdle ==
    /\ converters = << >>
    /\ regOrder = << >>
    /\ lastOp = [kind |-> "init", arg |-> None, query |-> << >>,
                 before |-> << >>, answer |-> None]

PureIdle ==
    /\ pin = [op |-> "none"]
    /\ pout = None

DepIdle ==
    /\ installed = [t \in LocatedTools |-> "absent"]
    /\ dep = [kind |-> "init"]

\* no transcode is in flight
StreamIdle == [phase |-> "idle"]

ProgIdle == prog = None /\ stream = StreamIdle

InitRegistry == RegInit /\ ConvIdle /\ PureIdle /\ DepIdle /\ ProgIdle

SpecRegistry == InitRegistry /\ [][RegNext]_vars

InitPure == PureInit /\ ConvIdle /\ RegIdle /\ DepIdle /\ ProgIdle

SpecPure == InitPure /\ [][PureNext]_vars

----------------------------------------------------------------------------
(* One conversion, by any of the five converters, in an environment that   *)
(* decides what the collaborators do                                       *)

File(d, n) == [parent |-> d, name |-> n]

\* the files that may be on disk before the conversion: possible
\* destinations, in the input's directory or in the output directory
PreNames ==
    {<<"f",".","p","n","g">>, <<"f",".","m","p","3">>,
     <<"f",".","w","e","b","m">>, <<"f",".","g","i","f">>,
     <<"f",".","h","t","m","l">>, <<"f",".","p","d","f">>,
     <<"f",".","r","t","f">>}

PreFiles == {{}} \cup {{File(d, n)} : d \in {"in", "out"}, n \in PreNames}

\* the options of a request: output directory given or not, overwrite or not
ConvOptions ==
    {[DefaultOptions EXCEPT !.output_dir = d, !.overwrite = o] :
        d \in {None, Some("out")}, o \in BOOLEAN}

\* the options of a video request: besides the output directory and the
\* overwrite flag, a frame rate with a width, a frame rate of zero, and
\* codecs and bit rates with a resolution
VideoOptions ==
    ConvOptions
    \cup {[DefaultOptions EXCEPT !.fps = Some("24"), !.width = Some("320")],
          [DefaultOptions EXCEPT !.fps = Some("0")],
          [DefaultOptions EXCEPT !.video_codec = Some("libx265"),
                                 !.audio_codec = Some("mp3"),
                                 !.video_bitrate = Some("1M"),
                                 !.audio_bitrate = Some("96k"),
                                 !.width = Some("640"), !.height = Some("360")]}

ImageRequests ==
    {[input_path |-> File("in", <<"f",".","b","m","p">>), output_format |-> f] :
        f \in {<<"p","n","g">>, <<".","P","N","G">>}}

AudioRequests ==
    {[input_path |-> File("in", <<"f",".","w","a","v">>),
      output_format |-> <<"m","p","3">>]}

VideoRequests ==
    {[input_path |-> File("in", <<"f",".","m","p","4">>), output_format |-> f] :
        f \in {<<"w","e","b","m">>, <<"g","i","f">>}}

DocumentRequests ==
    {[input_path |-> File("in", <<"f",".","m","d">>),
      output_format |-> <<"h","t","m","l">>],
     [input_path |-> File("in", <<"f",".","d","o","c","x">>),
      output_format |-> <<"p","d","f">>],
     [input_path |-> File("in", <<"f",".","d","o","c","x">>),
      output_format |-> <<"h","t","m","l">>],
     [input_path |-> File("in", <<"f",".","m","d">>),
      output_format |-> <<"r","t","f">>],
     [input_path |-> File("in", <<"f",".","x","y","z">>),
      output_format |-> <<"r","t","f">>],
     [input_path |-> File("in", <<"f",".","x","y","z">>),
      output_format |-> <<"x","m","l">>]}

PresentationRequests ==
    {[input_path |-> File("in", <<"f",".","p","p","t","x">>), output_format |-> f] :
        f \in {<<"p","d","f">>, <<"p","n","g">>, <<"j","p","g">>}}

\* what the search for a tool gives when the Dependency Locator has no
\* cached answer for it
Lookups(tool) ==
    IF cache[tool] = "unknown" THEN {"absent", "present", "raises"}
    ELSE {cache[tool]}

\* whether the tool can be run in this environment
Runnable(tool, found) == path[tool] \/ found = "present"

Quiet == [exit |-> "zero", wrote |-> TRUE, stderr |-> << >>, stdout |-> << >>]

\* the outcomes of a tool's job; one outcome when the tool cannot be run
JobOutcomes(tool, found, outcomes) ==
    IF Runnable(tool, found) THEN outcomes ELSE {Quiet}

\* the streams that matter: Pandoc's and FFmpeg's standard output is not read
ErrOnly == {o \in RunOutcomes : o.stdout = << >>}

\* creating a directory can fail only where one is missing
MkdirChoices == IF "out" \in dirs THEN {TRUE} ELSE BOOLEAN

ImageOutcomes == {"ok", "open_fails", "save_fails"}

World ==
    [fs |-> fs, dirs |-> dirs, path |-> path, cache |-> cache,
     spawned |-> << >>, written |-> {}, made |-> {}, bcalls |-> << >>,
     faults |-> {}, progress |-> << >>, rastered |-> << >>, streams |-> << >>,
     cmds |-> << >>]

\* convert() has returned r.ret, or raised r.exc, to its caller
Returned(conv, req, options, r) ==
    /\ fs' = r.w.fs
    /\ dirs' = r.w.dirs
    /\ path' = r.w.path
    /\ cache' = r.w.cache
    /\ call' = Some([converter |-> conv,
                     input_path |-> req.input_path,
                     output_format |-> req.output_format,
                     options |-> options,
                     dest |-> get_output_path(req.input_path, req.output_format,
                                              Some(options)),
                     before |-> fs,
                     raised |-> r.exc # None,
                     result |-> IF r.exc = None THEN Some(r.ret) ELSE None,
                     spawned |-> r.w.spawned,
                     written |-> r.w.written,
                     made |-> r.w.made,
                     bcalls |-> r.w.bcalls,
                     faults |-> r.w.faults,
                     rastered |-> r.w.rastered,
                     cmds |-> r.w.cmds])

ImageConvert ==
    /\ call = None
    /\ \E req \in ImageRequests, options \in ConvOptions,
          image \in ImageOutcomes, mk \in MkdirChoices :
          Returned("image", req, options,
                   image_convert(World, [mkdir_ok |-> mk, image |-> image, alpha |-> FALSE,
                                        callback |-> FALSE],
                                 req.input_path, req.output_format, options))
    /\ UNCHANGED <<regVars, pureVars, depVars, progVars>>

AudioConvert ==
    /\ call = None
    /\ \E req \in AudioRequests, options \in ConvOptions,
          found \in Lookups("ffmpeg"), mk \in MkdirChoices :
       \E job \in JobOutcomes("ffmpeg", found, StreamOutcomes \cap ErrOnly),
          probe \in IF Runnable("ffmpeg", found) THEN ProbeOutcomes ELSE {"noprobe"} :
          Returned("audio", req, options,
                   audio_convert(World,
                                 [mkdir_ok |-> mk, ffmpeg |-> job, probe |-> probe,
                                  located |-> [t \in {"ffmpeg"} |-> found],
                                  callback |-> FALSE, markers |-> << >>,
                                  duration |-> 1],
                                 req.input_path, req.output_format, options))
    /\ UNCHANGED <<regVars, pureVars, depVars, progVars>>

VideoConvert ==
    /\ call = None
    /\ \E req \in VideoRequests, options \in VideoOptions,
          found \in Lookups("ffmpeg"), mk \in MkdirChoices :
       \E job \in JobOutcomes("ffmpeg", found,
                               IF req.output_format = <<"g","i","f">>
                               THEN ErrOnly ELSE StreamOutcomes \cap ErrOnly),
          probe \in IF Runnable("ffmpeg", found)
                       /\ req.output_format # <<"g","i","f">>
                    THEN ProbeOutcomes ELSE {"noprobe"} :
          Returned("video", req, options,
                   video_convert(World,
                                 [mkdir_ok |-> mk, ffmpeg |-> job, probe |-> probe,
                                  located |-> [t \in {"ffmpeg"} |-> found],
                                  callback |-> FALSE, markers |-> << >>,
                                  duration |-> 1],
                                 req.input_path, req.output_format, options))
    /\ UNCHANGED <<regVars, pureVars, depVars, progVars>>

DocumentConvert ==
    /\ call = None
    /\ \E req \in DocumentRequests, options \in ConvOptions,
          foundP \in Lookups("pandoc"), foundL \in Lookups("libreoffice"),
          mk \in MkdirChoices :
       \E jobP \in JobOutcomes("pandoc", foundP, ErrOnly),
          jobL \in JobOutcomes("libreoffice", foundL, RunOutcomes) :
          Returned("document", req, options,
                   document_convert(World,
                                    [mkdir_ok |-> mk, pandoc |-> jobP, soffice |-> jobL,
                                     located |-> [t \in {"pandoc", "libreoffice"} |->
                                                    IF t = "pandoc" THEN foundP
                                                    ELSE foundL],
                                     callback |-> FALSE],
                                    req.input_path, req.output_format, options))
    /\ UNCHANGED <<regVars, pureVars, depVars, progVars>>

PresentationConvert ==
    /\ call = None
    /\ \E req \in PresentationRequests, options \in ConvOptions,
          found \in Lookups("libreoffice"), mk \in MkdirChoices :
       \E job \in JobOutcomes("libreoffice", found, RunOutcomes),
          raster \in IF Runnable("libreoffice", found)
                        /\ req.output_format \in SlideImageFormats
                     THEN RasterOutcomes
                     ELSE {[kind |-> "pages", pages |-> 0, fail_at |-> 0]} :
          Returned("presentation", req, options,
                   presentation_convert(World,
                                        [mkdir_ok |-> mk, soffice |-> job,
                                         raster |-> raster,
                                         located |-> [t \in {"libreoffice"} |-> found],
                                         callback |-> FALSE],
                                        req.input_path, req.output_format, options))
    /\ UNCHANGED <<regVars, pureVars, depVars, progVars>>

\* before the conversion: at most one earlier file, the input's directory,
\* the output directory or not, and a Dependency Locator that has answered
\* for no tool yet or for all of them
Init ==
    /\ fs \in PreFiles
    /\ dirs \in {d \in SUBSET {"in", "out"} :
                    "in" \in d /\ \A f \in fs : f.parent \in d}
    /\ path = [t \in Tools |-> FALSE]
    /\ cache \in {[t \in LocatedTools |-> v] : v \in {"unknown", "absent", "present"}}
    /\ call = None
    /\ RegIdle
    /\ PureIdle
    /\ DepIdle
    /\ ProgIdle

Next ==
    \/ ImageConvert
    \/ AudioConvert
    \/ VideoConvert
    \/ DocumentConvert
    \/ PresentationConvert

Spec == Init /\ [][Next]_vars

----------------------------------------------------------------------------
(* The dependency state over time: tools are installed and removed, the    *)
(* Dependency Locator is asked and cleared, the backends and converters    *)
(* are asked whether they can run, and an audio conversion is tried again  *)

\* the tool a dependent converter needs
NeededTool(c) ==
    CASE c = "Audio" -> "ffmpeg"
      [] c = "Video" -> "ffmpeg"
      [] c = "Presentation" -> "libreoffice"

\* the search for a tool finds it iff it is installed
Located == [t \in LocatedTools |-> installed[t]]

\* what a launched tool does: an installed one runs, a removed one cannot be
\* executed
DepJobs(tool) ==
    IF installed[tool] = "present"
    THEN {Quiet, [exit |-> "nonzero", wrote |-> FALSE,
                  stderr |-> <<"E">>, stdout |-> << >>]}
    ELSE {[exit |-> "oserror", wrote |-> FALSE, stderr |-> << >>, stdout |-> << >>]}

\* ffprobe lies beside ffmpeg or not
DepProbes == IF installed["ffmpeg"] = "present" THEN {"noprobe", "duration"}
             ELSE {"noprobe"}

DepEnv(job, probe) ==
    [located |-> Located, mkdir_ok |-> TRUE,
     ffmpeg |-> job, pandoc |-> job, soffice |-> job, probe |-> probe,
     raster |-> [kind |-> "pages", pages |-> 1, fail_at |-> 0],
     callback |-> FALSE, markers |-> << >>, duration |-> 1]

\* an earlier conversion has returned the dependency-missing failure
Missed == dep.kind # "init" /\ dep.missed

\* the record of an operation on the dependency state
DepOp(kind, tool, conv, r, again, missed) ==
    [kind |-> kind, tool |-> tool, conv |-> conv,
     raised |-> r.exc # None,
     answer |-> IF r.exc = None THEN Some(r.ret) ELSE None,
     cacheBefore |-> cache, again |-> again,
     missedBefore |-> Missed, missed |-> missed]

\* the operation has left the world as r.w
Applied(r) ==
    /\ fs' = r.w.fs
    /\ dirs' = r.w.dirs
    /\ path' = r.w.path
    /\ cache' = r.w.cache

\* the tool is installed on the machine
Install(t) ==
    /\ installed[t] = "absent"
    /\ installed' = [installed EXCEPT ![t] = "present"]
    /\ dep' = DepOp("install", t, "none", Ret(World, TRUE), None, Missed)
    /\ UNCHANGED <<convVars, regVars, pureVars, progVars>>

\* the tool is removed from the machine
Remove(t) ==
    /\ installed[t] = "present"
    /\ installed' = [installed EXCEPT ![t] = "absent"]
    /\ dep' = DepOp("remove", t, "none", Ret(World, TRUE), None, Missed)
    /\ UNCHANGED <<convVars, regVars, pureVars, progVars>>

\* dependency_checker.clear_cache()
ClearCache ==
    /\ Applied(Ret(clear_cache(World), TRUE))
    /\ dep' = DepOp("clear_cache", "none", "none", Ret(World, TRUE), None, Missed)
    /\ UNCHANGED <<call, installed, regVars, pureVars, progVars>>

\* dependency_checker.check_ffmpeg() / check_pandoc() / check_libreoffice()
CheckTool(t) ==
    /\ \E r \in {check_tool(World, DepEnv(Quiet, "noprobe"), t)} :
          /\ Applied(r)
          /\ dep' = DepOp("check", t, "none", r, None, Missed)
    /\ UNCHANGED <<call, installed, regVars, pureVars, progVars>>

\* is_available() of the backend of tool t
IsAvailable(t) ==
    /\ \E r \in {is_available(World, DepEnv(Quiet, "noprobe"), t)} :
          /\ Applied(r)
          /\ dep' = DepOp("is_available", t, "none", r, None, Missed)
    /\ UNCHANGED <<call, installed, regVars, pureVars, progVars>>

\* validate_dependencies() of the converter of category c; `again` keeps the
\* previous answer when the previous operation was the same call
ValidateDependencies(c) ==
    /\ \E probe \in DepProbes :
       \E r \in {validate_dependencies(World, DepEnv(Quiet, probe), c)} :
          /\ Applied(r)
          /\ dep' = DepOp("validate", "none", c, r,
                          IF dep.kind = "validate" /\ dep.conv = c
                          THEN Some([answer |-> dep.answer,
                                     cacheBefore |-> dep.cacheBefore])
                          ELSE None,
                          Missed)
    /\ UNCHANGED <<call, installed, regVars, pureVars, progVars>>

\* AudioConverter.convert, as often as the caller likes
RetryAudioConvert ==
    /\ \E job \in DepJobs("ffmpeg"), probe \in DepProbes :
       \E r \in {audio_convert(World, DepEnv(job, probe),
                                File("in", <<"f",".","w","a","v">>),
                                <<"m","p","3">>,
                                [DefaultOptions EXCEPT !.overwrite = TRUE])} :
          /\ Applied(r)
          /\ dep' = DepOp("convert", "ffmpeg", "Audio", r, None,
                          \/ Missed
                          \/ /\ r.exc = None
                             /\ r.ret = Failure(<<"FFmpeg not available">>))
    /\ UNCHANGED <<call, installed, regVars, pureVars, progVars>>

\* the process starts with nothing resolved; any of the tools may be there
InitDeps ==
    /\ fs = {}
    /\ dirs = {"in"}
    /\ path = [t \in Tools |-> FALSE]
    /\ cache = [t \in LocatedTools |-> "unknown"]
    /\ call = None
    /\ installed \in [LocatedTools -> {"absent", "present"}]
    /\ dep = [kind |-> "init"]
    /\ RegIdle
    /\ PureIdle
    /\ ProgIdle

NextDeps ==
    \/ \E t \in LocatedTools : Install(t)
    \/ \E t \in LocatedTools : Remove(t)
    \/ ClearCache
    \/ \E t \in LocatedTools : CheckTool(t)
    \/ \E t \in LocatedTools : IsAvailable(t)
    \/ \E c \in Categories : ValidateDependencies(c)
    \/ RetryAudioConvert

SpecDeps == InitDeps /\ [][NextDeps]_vars

----------------------------------------------------------------------------
(* One backend operation called directly, in any dependency state          *)

\* the backend of tool t has no path and the Dependency Locator has none to
\* give: its cache says "not found", or it has no entry and the tool is not
\* installed
Unavailable(t) ==
    /\ ~path[t]
    /\ \/ cache[t] = "absent"
       \/ cache[t] = "unknown" /\ installed[t] = "absent"

\* what a launched tool does when a backend operation is called directly
BackendJobs(tool, outcomes) ==
    IF Unavailable(tool) THEN {Quiet}
    ELSE IF installed[tool] = "present" THEN outcomes
    ELSE {[exit |-> "oserror", wrote |-> FALSE, stderr |-> << >>, stdout |-> << >>]}

\* the durations the probe may report, in seconds
Durations == {2, 5}

\* the elapsed times a progress line may carry, in whole seconds:
\* H*3600 + M*60 + S of the marker time=HH:MM:SS
MarkerTimes == {0, 1, 3, 6}

\* the elapsed-time markers on the error stream of one transcode, in the
\* order the lines are read
MarkerRuns ==
    {<< >>} \cup {<<a>> : a \in MarkerTimes}
            \cup {<<a, b>> : a \in MarkerTimes, b \in MarkerTimes}

\* a probe that reports no duration leaves none to choose
DurationsOf(probe) == IF probe = "duration" THEN Durations ELSE {1}

\* the error streams of a transcode called directly
StreamRuns == {<< >>, <<1>>, <<3, 6>>}

\* a streaming transcode called directly: the lines of the tool's error
\* stream carry the elapsed-time markers, the input lasts `duration` seconds
StreamEnv(job, probe, markers, duration) ==
    [located |-> Located, mkdir_ok |-> TRUE,
     ffmpeg |-> job, probe |-> probe,
     callback |-> FALSE, markers |-> markers, duration |-> duration]

BackendEnv(job, probe, raster, mk) ==
    [located |-> Located, mkdir_ok |-> mk,
     ffmpeg |-> job, pandoc |-> job, soffice |-> job, probe |-> probe,
     raster |-> raster,
     callback |-> FALSE, markers |-> << >>, duration |-> 1]

NoRaster == [kind |-> "pages", pages |-> 0, fail_at |-> 0]

\* the backend operation op of tool t has returned r.ret, or raised
BackendDone(op, t, r) ==
    /\ Applied(r)
    /\ dep' = [kind |-> "backend", op |-> op, tool |-> t,
               unavailable |-> Unavailable(t),
               cacheBefore |-> cache,
               raised |-> r.exc # None,
               answer |-> IF r.exc = None
                          THEN Some(Tuple2(r.ret.success, r.ret.message))
                          ELSE None,
               spawned |-> r.w.spawned, made |-> r.w.made,
               written |-> r.w.written, rastered |-> r.w.rastered,
               streams |-> r.w.streams,
               fsBefore |-> fs, dirsBefore |-> dirs]
    /\ UNCHANGED <<call, installed, regVars, pureVars, progVars>>

BackendConvertVideo ==
    /\ dep.kind = "init"
    /\ \E job \in BackendJobs("ffmpeg", StreamOutcomes \cap ErrOnly),
          probe \in IF Unavailable("ffmpeg") THEN {"noprobe"} ELSE ProbeOutcomes,
          progress_callback \in BOOLEAN, markers \in StreamRuns :
       \E duration \in DurationsOf(probe) :
          BackendDone("ffmpeg.convert_video", "ffmpeg",
                      convert_video(World, StreamEnv(job, probe, markers, duration),
                                    progress_callback,
                                    File("in", <<"f",".","m","p","4">>),
                                    File("out", <<"f",".","w","e","b","m">>),
                                    VideoDefaults))

BackendConvertAudio ==
    /\ dep.kind = "init"
    /\ \E job \in BackendJobs("ffmpeg", StreamOutcomes \cap ErrOnly),
          probe \in IF Unavailable("ffmpeg") THEN {"noprobe"} ELSE ProbeOutcomes,
          progress_callback \in BOOLEAN, markers \in StreamRuns :
       \E duration \in DurationsOf(probe) :
          BackendDone("ffmpeg.convert_audio", "ffmpeg",
                      convert_audio(World, StreamEnv(job, probe, markers, duration),
                                    progress_callback,
                                    File("in", <<"f",".","w","a","v">>),
                                    File("out", <<"f",".","m","p","3">>),
                                    AudioDefaults))

BackendVideoToGif ==
    /\ dep.kind = "init"
    /\ \E job \in BackendJobs("ffmpeg", ErrOnly) :
          BackendDone("ffmpeg.video_to_gif", "ffmpeg",
                      video_to_gif(World, BackendEnv(job, "noprobe", NoRaster, TRUE),
                                   File("in", <<"f",".","m","p","4">>),
                                   File("out", <<"f",".","g","i","f">>),
                                   "10", "480"))

BackendPandocConvert ==
    /\ dep.kind = "init"
    /\ \E job \in BackendJobs("pandoc", ErrOnly), mk \in MkdirChoices :
          BackendDone("pandoc.convert", "pandoc",
                      pandoc_convert(World, BackendEnv(job, "noprobe", NoRaster, mk),
                                     File("in", <<"f",".","m","d">>),
                                     File("out", <<"f",".","h","t","m","l">>)))

BackendPandocConvertString ==
    /\ dep.kind = "init"
    /\ \E job \in BackendJobs("pandoc", RunOutcomes) :
          BackendDone("pandoc.convert_string", "pandoc",
                      pandoc_convert_string(World,
                                            BackendEnv(job, "noprobe", NoRaster, TRUE)))

BackendLibreOfficeConvert ==
    /\ dep.kind = "init"
    /\ \E job \in BackendJobs("libreoffice", RunOutcomes), mk \in MkdirChoices :
          BackendDone("libreoffice.convert", "libreoffice",
                      libreoffice_convert(World,
                                          BackendEnv(job, "noprobe", NoRaster, mk),
                                          File("in", <<"f",".","d","o","c","x">>),
                                          <<"p","d","f">>, Some("out")))

BackendPresentationToImages ==
    /\ dep.kind = "init"
    /\ \E job \in BackendJobs("libreoffice", RunOutcomes), mk \in MkdirChoices,
          raster \in IF Unavailable("libreoffice") THEN {NoRaster}
                     ELSE RasterOutcomes :
       \E image_format \in {<<"p","n","g">>, <<"j","p","g">>} :
          BackendDone("libreoffice.convert_presentation_to_images", "libreoffice",
                      convert_presentation_to_images(
                          World, BackendEnv(job, "noprobe", raster, mk),
                          File("in", <<"f",".","p","p","t","x">>), "out",
                          image_format))

\* any dependency state a process can be in, the output directory there or
\* not
InitBackend ==
    /\ fs = {}
    /\ dirs \in {{"in"}, {"in", "out"}}
    /\ path \in {[t \in Tools |-> t # "ffprobe" /\ t \in S] : S \in SUBSET LocatedTools}
    /\ cache \in [LocatedTools -> {"unknown", "absent", "present"}]
    /\ call = None
    /\ installed \in [LocatedTools -> {"absent", "present"}]
    /\ dep = [kind |-> "init"]
    /\ RegIdle
    /\ PureIdle
    /\ ProgIdle

NextBackend ==
    \/ BackendConvertVideo
    \/ BackendConvertAudio
    \/ BackendVideoToGif
    \/ BackendPandocConvert
    \/ BackendPandocConvertString
    \/ BackendLibreOfficeConvert
    \/ BackendPresentationToImages

SpecBackend == InitBackend /\ [][NextBackend]_vars

----------------------------------------------------------------------------
(* One conversion by a converter with a progress callback registered, next *)
(* to the same conversion by a converter without one                       *)

\* lines with markers are worth choosing only where they are read
MarkersOf(probe) == IF probe = "duration" THEN MarkerRuns ELSE {<< >>}

\* the job outcomes told apart by the progress reports
ProgressOutcomes ==
    {o \in ErrOnly : o.exit = "nonzero" => o.stderr # << >>}

\* requests that reach the colour-mode and resize steps of the image converter
ProgressImageRequests ==
    {[input_path |-> File("in", <<"f",".","b","m","p">>), output_format |-> f] :
        f \in {<<"p","n","g">>, <<"j","p","g">>}}

ProgressImageOptions ==
    {[o EXCEPT !.width = wd] : o \in ConvOptions, wd \in {None, Some("w")}}

\* what a conversion did and returned, apart from its progress reports
Outcome(r) ==
    [raised |-> r.exc # None,
     result |-> IF r.exc = None THEN Some(r.ret) ELSE None,
     fs |-> r.w.fs, dirs |-> r.w.dirs, path |-> r.w.path, cache |-> r.w.cache,
     spawned |-> r.w.spawned, written |-> r.w.written, made |-> r.w.made,
     bcalls |-> r.w.bcalls, faults |-> r.w.faults]

\* set_progress_callback(callback), then convert(): r is the conversion with
\* the callback registered, s the same conversion by a converter that has
\* none (_progress_callback is None)
Watched(conv, req, options, markers, r, s) ==
    /\ Returned(conv, req, options, r)
    /\ stream' = stream
    /\ prog' = Some([converter |-> conv,
                     markers |-> markers,
                     fractions |-> r.w.progress,
                     streams |-> r.w.streams,
                     bcalls |-> r.w.bcalls,
                     registered |-> Outcome(r),
                     unset |-> Outcome(s),
                     unsetFractions |-> s.w.progress])

ImageEnv(mk, image, alpha, callback) ==
    [mkdir_ok |-> mk, image |-> image, alpha |-> alpha, callback |-> callback]

FFmpegEnv(mk, job, probe, found, markers, duration, callback) ==
    [mkdir_ok |-> mk, ffmpeg |-> job, probe |-> probe,
     located |-> [t \in {"ffmpeg"} |-> found],
     callback |-> callback, markers |-> markers, duration |-> duration]

DocumentEnv(mk, jobP, jobL, foundP, foundL, callback) ==
    [mkdir_ok |-> mk, pandoc |-> jobP, soffice |-> jobL,
     located |-> [t \in {"pandoc", "libreoffice"} |->
                    IF t = "pandoc" THEN foundP ELSE foundL],
     callback |-> callback]

PresentationEnv(mk, job, raster, found, callback) ==
    [mkdir_ok |-> mk, soffice |-> job, raster |-> raster,
     located |-> [t \in {"libreoffice"} |-> found], callback |-> callback]

WatchedImageConvert ==
    /\ call = None
    /\ \E req \in ProgressImageRequests, options \in ProgressImageOptions,
          image \in ImageOutcomes, mk \in MkdirChoices, alpha \in BOOLEAN :
          Watched("image", req, options, << >>,
                  image_convert(World, ImageEnv(mk, image, alpha, TRUE),
                                req.input_path, req.output_format, options),
                  image_convert(World, ImageEnv(mk, image, alpha, FALSE),
                                req.input_path, req.output_format, options))
    /\ UNCHANGED <<regVars, pureVars, depVars>>

WatchedAudioConvert ==
    /\ call = None
    /\ \E req \in AudioRequests, options \in ConvOptions,
          found \in Lookups("ffmpeg"), mk \in MkdirChoices :
       \E job \in JobOutcomes("ffmpeg", found, StreamOutcomes \cap ProgressOutcomes),
          probe \in IF Runnable("ffmpeg", found) THEN ProbeOutcomes ELSE {"noprobe"} :
       \E markers \in MarkersOf(probe), duration \in DurationsOf(probe) :
          Watched("audio", req, options, markers,
                  audio_convert(World,
                                FFmpegEnv(mk, job, probe, found, markers, duration, TRUE),
                                req.input_path, req.output_format, options),
                  audio_convert(World,
                                FFmpegEnv(mk, job, probe, found, markers, duration, FALSE),
                                req.input_path, req.output_format, options))
    /\ UNCHANGED <<regVars, pureVars, depVars>>

WatchedVideoConvert ==
    /\ call = None
    /\ \E req \in VideoRequests, options \in ConvOptions,
          found \in Lookups("ffmpeg"), mk \in MkdirChoices :
       \E job \in JobOutcomes("ffmpeg", found,
                               IF req.output_format = <<"g","i","f">>
                               THEN ProgressOutcomes
                               ELSE StreamOutcomes \cap ProgressOutcomes),
          probe \in IF Runnable("ffmpeg", found)
                       /\ req.output_format # <<"g","i","f">>
                    THEN ProbeOutcomes ELSE {"noprobe"} :
       \E markers \in MarkersOf(probe), duration \in DurationsOf(probe) :
          Watched("video", req, options, markers,
                  video_convert(World,
                                FFmpegEnv(mk, job, probe, found, markers, duration, TRUE),
                                req.input_path, req.output_format, options),
                  video_convert(World,
                                FFmpegEnv(mk, job, probe, found, markers, duration, FALSE),
                                req.input_path, req.output_format, options))
    /\ UNCHANGED <<regVars, pureVars, depVars>>

WatchedDocumentConvert ==
    /\ call = None
    /\ \E req \in DocumentRequests, options \in ConvOptions,
          foundP \in Lookups("pandoc"), foundL \in Lookups("libreoffice"),
          mk \in MkdirChoices :
       \E jobP \in JobOutcomes("pandoc", foundP, ProgressOutcomes),
          jobL \in JobOutcomes("libreoffice", foundL, ProgressOutcomes) :
          Watched("document", req, options, << >>,
                  document_convert(World,
                                   DocumentEnv(mk, jobP, jobL, foundP, foundL, TRUE),
                                   req.input_path, req.output_format, options),
                  document_convert(World,
                                   DocumentEnv(mk, jobP, jobL, foundP, foundL, FALSE),
                                   req.input_path, req.output_format, options))
    /\ UNCHANGED <<regVars, pureVars, depVars>>

WatchedPresentationConvert ==
    /\ call = None
    /\ \E req \in PresentationRequests, options \in ConvOptions,
          found \in Lookups("libreoffice"), mk \in MkdirChoices :
       \E job \in JobOutcomes("libreoffice", found, ProgressOutcomes),
          raster \in IF Runnable("libreoffice", found)
                        /\ req.output_format \in SlideImageFormats
                     THEN RasterOutcomes
                     ELSE {[kind |-> "pages", pages |-> 0, fail_at |-> 0]} :
          Watched("presentation", req, options, << >>,
                  presentation_convert(World,
                                       PresentationEnv(mk, job, raster, found, TRUE),
                                       req.input_path, req.output_format, options),
                  presentation_convert(World,
                                       PresentationEnv(mk, job, raster, found, FALSE),
                                       req.input_path, req.output_format, options))
    /\ UNCHANGED <<regVars, pureVars, depVars>>

\* before the conversion: at most one earlier file, the output directory
\* there or not, and a Dependency Locator that has answered for no tool yet
InitProgress ==
    /\ fs \in PreFiles
    /\ dirs \in {d \in SUBSET {"in", "out"} :
                    "in" \in d /\ \A f \in fs : f.parent \in d}
    /\ path = [t \in Tools |-> FALSE]
    /\ cache = [t \in LocatedTools |-> "unknown"]
    /\ call = None
    /\ RegIdle
    /\ PureIdle
    /\ DepIdle
    /\ ProgIdle

NextProgress ==
    \/ WatchedImageConvert
    \/ WatchedAudioConvert
    \/ WatchedVideoConvert
    \/ WatchedDocumentConvert
    \/ WatchedPresentationConvert

SpecProgress == InitProgress /\ [][NextProgress]_vars

----------------------------------------------------------------------------
(* A streaming transcode in flight: FFmpeg writes its progress lines to    *)
(* the error pipe while convert_video / convert_audio reads them           *)

\* the lines FFmpeg may write, and the lines the pipe holds before a write
\* blocks
MaxLines == 4

PipeCapacity == 2

\* a reader that stops reading when it has nothing to report to: no
\* progress function or no duration
AtEndOrUnwatched(s) ==
    ~(s.callback /\ s.duration) \/ (s.pipe = 0 /\ s.proc # "running")

\* `for line in process.stderr` ends at end-of-stream: the pipe is empty
\* and the tool has closed its end
AtEndOfStream(s) ==
    s.pipe = 0 /\ s.proc # "running"

\* subprocess.Popen(cmd, stderr=subprocess.PIPE, universal_newlines=True)
\* has returned: the tool runs with `lines` lines to write and will exit
\* with `code`; the backend enters its loop, with or without a progress
\* function and a duration
InitStream ==
    /\ fs = {}
    /\ dirs = {"in", "out"}
    /\ path = [t \in Tools |-> TRUE]
    /\ cache = [t \in LocatedTools |-> "present"]
    /\ call = None
    /\ RegIdle
    /\ PureIdle
    /\ DepIdle
    /\ prog = None
    /\ stream \in {[phase |-> "reading", proc |-> "running", lines |-> n,
                     toWrite |-> n, pipe |-> 0, read |-> 0, handed |-> 0,
                     stalled |-> FALSE, wasStalled |-> FALSE,
                     callback |-> c, duration |-> d, code |-> k,
                     answer |-> None] :
                       n \in 0..MaxLines, c \in BOOLEAN, d \in BOOLEAN, k \in {0, 1}}

StreamStep(s) ==
    /\ stream' = s
    /\ UNCHANGED <<convVars, regVars, pureVars, depVars, prog>>

\* the tool writes a line to its error stream: there is room in the pipe
ProcessWrites ==
    /\ stream.phase # "idle"
    /\ stream.proc = "running"
    /\ stream.toWrite > 0
    /\ stream.pipe < PipeCapacity
    /\ StreamStep([stream EXCEPT !.pipe = @ + 1, !.toWrite = @ - 1,
                                 !.stalled = FALSE])

\* the tool writes a line and the pipe is full: the write blocks
ProcessStalls ==
    /\ stream.phase # "idle"
    /\ stream.proc = "running"
    /\ stream.toWrite > 0
    /\ stream.pipe = PipeCapacity
    /\ ~stream.stalled
    /\ StreamStep([stream EXCEPT !.stalled = TRUE, !.wasStalled = TRUE])

\* the tool has written its last line and closes its error stream
ProcessCloses ==
    /\ stream.phase # "idle"
    /\ stream.proc = "running"
    /\ stream.toWrite = 0
    /\ StreamStep([stream EXCEPT !.proc = "closed"])

\* the tool terminates
ProcessExits ==
    /\ stream.phase # "idle"
    /\ stream.proc = "closed"
    /\ StreamStep([stream EXCEPT !.proc = "exited"])

\* one turn of `for line in process.stderr`: a line is taken from the pipe;
\* it is turned into a fraction only `if progress_callback and duration`
WrapperReadsLine ==
    /\ stream.phase = "reading"
    /\ ~AtEndOfStream(stream)
    /\ stream.pipe > 0
    /\ StreamStep([stream EXCEPT !.pipe = @ - 1, !.read = @ + 1,
                                 !.handed = IF stream.callback /\ stream.duration
                                            THEN @ + 1 ELSE @])

\* the loop ends and process.wait() is called
WrapperLeavesLoop ==
    /\ stream.phase = "reading"
    /\ AtEndOfStream(stream)
    /\ StreamStep([stream EXCEPT !.phase = "waiting"])

\* process.wait() returns once the tool has terminated; the answer is
\* that of `process.returncode == 0`
WrapperReturns ==
    /\ stream.phase = "waiting"
    /\ stream.proc = "exited"
    /\ StreamStep([stream EXCEPT !.phase = "returned",
                                 !.answer = Some(stream.code = 0)])

ProcessNext == ProcessWrites \/ ProcessStalls \/ ProcessCloses \/ ProcessExits

WrapperNext == WrapperReadsLine \/ WrapperLeavesLoop \/ WrapperReturns

NextStream ==
    \/ ProcessWrites
    \/ ProcessStalls
    \/ ProcessCloses
    \/ ProcessExits
    \/ WrapperReadsLine
    \/ WrapperLeavesLoop
    \/ WrapperReturns

SpecStream == InitStream /\ [][NextStream]_vars

\* the tool is scheduled whenever it can take a step, and so is the thread
\* that called convert_video / convert_audio, which does nothing else
\* between Popen and the return
SpecStreamLive ==
    SpecStream /\ WF_vars(ProcessNext) /\ WF_vars(WrapperNext)

----------------------------------------------------------------------------
(* Properties of a conversion                                              *)

\* the ConversionResult of the finished call
Result == Get(Get(call).result)

NoBackendMessage == <<"No suitable backend available for this conversion">>

\* the last conversion job launched, if any, did not end with exit status 0
LastJobFailed(c) ==
    LET jobs == {k \in 1..Len(c.spawned) : c.spawned[k].purpose = "job"}
    IN  /\ jobs # {}
        /\ c.spawned[CHOOSE k \in jobs : \A j \in jobs : j <= k].exit # "zero"

\* C1: every result with success=true returned by a converter names an
\* output_path that is a file on disk as convert returns; a tool that exits
\* with status 0 without writing the file never gives a successful result.
C1_SuccessNamesExistingOutput ==
    call # None =>
        LET c == Get(call)
        IN  (c.result # None /\ Result.success) =>
                /\ Result.output_path # None
                /\ Get(Result.output_path) \in fs

\* C2: every file-producing backend call (FFmpeg convert_video,
\* convert_audio, video_to_gif; Pandoc convert; LibreOffice convert) returns
\* success exactly when its process exited with status 0 and the file it was
\* to produce is on disk as the call returns.
C2_BackendSuccessIffExitZeroAndOutput ==
    call # None =>
        \A k \in 1..Len(Get(call).bcalls) :
            LET b == Get(call).bcalls[k]
            IN  b.success <=> (b.exit = "zero" /\ b.present)

\* C3: when the destination of the request is on disk before the call and
\* options.overwrite is false, convert returns the "already exists"
\* failure, no external process has been launched and the file has not been
\* written.
C3_ExistingDestinationRefused ==
    call # None =>
        LET c == Get(call)
        IN  (c.dest \in c.before /\ ~c.options.overwrite) =>
                /\ c.result # None
                /\ Result = Failure(AlreadyExists)
                /\ c.spawned = << >>
                /\ c.dest \notin c.written

\* the errors no later step makes up for: a failed dependency lookup, file
\* system operation, duration parse, rasteriser or image save
FatalFaults == {"lookup", "mkdir", "image", "parse", "raster", "save"}

\* C4: convert never raises to its caller; it returns a ConversionResult,
\* and one with success=false whenever a dependency lookup, a file system
\* operation or the rasteriser failed during the conversion, or its last
\* conversion job did not exit with status 0 (failed launch, non-zero exit,
\* timeout).
C4_ConvertNeverRaises ==
    call # None =>
        LET c == Get(call)
        IN  /\ ~c.raised
            /\ c.result # None
            /\ (c.faults \cap FatalFaults # {} \/ LastJobFailed(c)) => ~Result.success

\* C5: a returned result with success=true has output_path set and
\* error_message unset; one with success=false has output_path unset and
\* error_message set to a non-empty text.
C5_ResultShape ==
    (call # None /\ Get(call).result # None) =>
        /\ Result.success =>
                Result.output_path # None /\ Result.error_message = None
        /\ ~Result.success =>
                /\ Result.output_path = None
                /\ Result.error_message # None
                /\ Get(Result.error_message) # << >>

\* the Dependency Locator has found neither Pandoc nor LibreOffice
NeitherAvailable == cache["pandoc"] = "absent" /\ cache["libreoffice"] = "absent"

BackendCalls == {Get(call).bcalls[k] : k \in 1..Len(Get(call).bcalls)}

\* C11: in a document conversion, whenever every backend that was attempted
\* failed (one attempted and failed, or both attempted and both failed), the
\* result is the failure "No suitable backend available for this conversion".
C11_AllBackendsFailedMessage ==
    call # None =>
        LET c == Get(call)
        IN  ( /\ c.converter = "document"
              /\ c.result # None
              /\ c.bcalls # << >>
              /\ \A b \in BackendCalls : ~b.success ) =>
                Result = Failure(NoBackendMessage)

\* the page count of the intermediate PDF of a slides-to-images conversion
\* in which nothing around the program failed: the rasteriser returned the
\* pages and the disk took every save
PdfPages ==
    IF /\ call # None
       /\ Get(call).converter = "presentation"
       /\ Len(Get(call).rastered) = 1
       /\ Get(call).rastered[1].kind = "pages"
       /\ Get(call).rastered[1].fail_at = 0
    THEN Get(call).rastered[1].pages
    ELSE 0

\* C21: a presentation whose intermediate PDF has N >= 1 pages, converted to
\* an image format, leaves exactly the N files {stem}_slide_1.{ext} ..
\* {stem}_slide_N.{ext} in the output directory and returns success with
\* output_path = {stem}_slide_1.{ext}.
C21_OneImagePerPage ==
    PdfPages >= 1 =>
        LET c == Get(call)
            ext == LStripDot(StrLower(c.output_format))
            slides == {SlidePath(c.dest.parent, c.input_path, i, ext) :
                        i \in 1..PdfPages}
        IN  /\ {f \in c.written : f.parent = c.dest.parent} = slides
            /\ Result = Success(Some(SlidePath(c.dest.parent, c.input_path, 1, ext)))

\* the codec and bit-rate flags of FFmpeg
CodecFlags == {<<"-c:v">>, <<"-c:a">>, <<"-b:v">>, <<"-b:a">>}

\* the positions of the conversion jobs among the processes launched
JobIndices(c) == {k \in 1..Len(c.spawned) : c.spawned[k].purpose = "job"}

\* the argument list has `value` right after `flag`
HasOption(cmd, flag, value) ==
    \E i \in 1..Len(cmd) - 1 : cmd[i] = flag /\ cmd[i + 1] = value

ChoseBackend ==
    /\ call # None
    /\ Get(call).converter = "document"
    /\ ~(Get(call).dest \in Get(call).before /\ ~Get(call).options.overwrite)
    /\ Get(call).faults \cap {"mkdir", "lookup"} = {}

\* the formats the backend is chosen by
InFmt == LStripDot(StrLower(PathSuffix(Get(call).input_path.name)))

OutFmt == LStripDot(StrLower(Get(call).output_format))

\* is_available() of the tool's backend is true / false, as far as the
\* conversion or an earlier query has found out
Available(t) == path[t] \/ cache[t] = "present"

NotAvailable(t) == ~path[t] /\ cache[t] = "absent"

\* the markup-oriented formats and the word-processor formats of the rules
MarkupFormats ==
    {<<"m","d">>, <<"m","a","r","k","d","o","w","n">>, <<"t","x","t">>,
     <<"h","t","m","l">>, <<"h","t","m">>, <<"r","s","t">>, <<"o","r","g">>,
     <<"t","e","x">>, <<"l","a","t","e","x">>, <<"e","p","u","b">>}

WordFormats ==
    {<<"d","o","c","x">>, <<"d","o","c">>, <<"o","d","t">>, <<"r","t","f">>}

\* rule 1 selects Pandoc; rule 2 selects LibreOffice
Rule1Selects ==
    (InFmt \in MarkupFormats \/ OutFmt \in MarkupFormats) /\ Available("pandoc")

Rule1Passes ==
    (InFmt \notin MarkupFormats /\ OutFmt \notin MarkupFormats)
    \/ NotAvailable("pandoc")

Rule2Applies ==
    InFmt \in WordFormats \/ OutFmt \in WordFormats \/ OutFmt = <<"p","d","f">>

\* the backend operations called during the conversion, in order
Ops == [k \in 1..Len(Get(call).bcalls) |-> Get(call).bcalls[k].op]

\* C23: in a document conversion that chooses a backend, when the input or
\* the output format is markup-oriented and Pandoc is available, Pandoc is
\* the one backend called, LibreOffice is not called, and the result is
\* Pandoc's: success with its success, its message on failure.
C23_MarkupGoesToPandoc ==
    (ChoseBackend /\ Rule1Selects) =>
        /\ Ops = <<"pandoc.convert">>
        /\ Get(call).result # None
        /\ Result.success = Get(call).bcalls[1].success
        /\ ~Result.success => Result.error_message = Some(Get(call).bcalls[1].message)

\* a Word file turned into HTML by Pandoc although LibreOffice is there
C23_Witness ==
    /\ ChoseBackend
    /\ InFmt = <<"d","o","c","x">>
    /\ OutFmt = <<"h","t","m","l">>
    /\ Available("pandoc")
    /\ Available("libreoffice")
    /\ Ops = <<"pandoc.convert">>
    /\ Result.success

\* C24: in a document conversion where rule 1 does not select Pandoc, when
\* the input or the output format is a word-processor format (docx, doc,
\* odt, rtf) or the output format is pdf, and LibreOffice is available,
\* LibreOffice is the backend called and Pandoc is not called.
C24_OfficeGoesToLibreOffice ==
    (ChoseBackend /\ Rule1Passes /\ Rule2Applies /\ Available("libreoffice")) =>
        Ops = <<"libreoffice.convert">>

\* C25: in a document conversion where neither rule selects a backend,
\* Pandoc, if available, is called first; a Pandoc success ends the
\* conversion; LibreOffice is called only after Pandoc failed or was found
\* unavailable, and is called after a Pandoc failure whenever it is
\* available.
C25_FallbackPandocThenLibreOffice ==
    ( /\ ChoseBackend
      /\ Rule1Passes
      /\ ~Rule2Applies \/ NotAvailable("libreoffice") ) =>
        /\ Ops \in {<< >>, <<"pandoc.convert">>, <<"libreoffice.convert">>,
                     <<"pandoc.convert", "libreoffice.convert">>}
        /\ Available("pandoc") => (Ops # << >> /\ Ops[1] = "pandoc.convert")
        /\ (Ops # << >> /\ Ops[1] = "pandoc.convert"
              /\ Get(call).bcalls[1].success) => Len(Ops) = 1
        /\ (Ops # << >> /\ Ops[1] = "pandoc.convert"
              /\ ~Get(call).bcalls[1].success /\ Available("libreoffice")) =>
                Ops = <<"pandoc.convert", "libreoffice.convert">>
        /\ (Ops = <<"libreoffice.convert">>) => NotAvailable("pandoc")
        /\ NotAvailable("libreoffice") =>
                \A k \in 1..Len(Ops) : Ops[k] # "libreoffice.convert"

\* Pandoc failed on a file of a format no rule knows and LibreOffice took
\* over
C25_Witness ==
    /\ ChoseBackend
    /\ InFmt \notin MarkupFormats \cup WordFormats
    /\ OutFmt \notin MarkupFormats \cup WordFormats \cup {<<"p","d","f">>}
    /\ Ops = <<"pandoc.convert", "libreoffice.convert">>
    /\ ~Get(call).bcalls[1].success
    /\ Result.success

\* C30: in one document conversion each backend is called at most once, at
\* most two conversion processes are launched, and a backend is called only
\* if its is_available() was true: the backend did not find itself without
\* its tool.
C30_EachBackendAtMostOnce ==
    (call # None /\ Get(call).converter = "document") =>
        /\ \A i \in 1..Len(Ops) : \A j \in 1..Len(Ops) : Ops[i] = Ops[j] => i = j
        /\ Cardinality(JobIndices(Get(call))) <= 2
        /\ \A b \in BackendCalls :
              /\ b.exit # "none"
              /\ b.op = "pandoc.convert" => path["pandoc"]
              /\ b.op = "libreoffice.convert" => path["libreoffice"]

\* both backends were called, once each, and both failed
C30_Witness ==
    /\ call # None
    /\ Get(call).converter = "document"
    /\ Ops = <<"pandoc.convert", "libreoffice.convert">>
    /\ Cardinality(JobIndices(Get(call))) = 2
    /\ ~Result.success

\* the launches of the duration probe and of the transcode by the backend
\* operation called
DurationProbes == {k \in 1..Len(dep.spawned) : dep.spawned[k].purpose = "probe"}

Transcodes == {k \in 1..Len(dep.spawned) : dep.spawned[k].purpose = "job"}

\* the probe was not run, failed, or printed a duration of zero
NoUsableDuration ==
    \A k \in DurationProbes : dep.spawned[k].exit = "nonzero" \/ dep.spawned[k].printed = "zero"

\* C27: in convert_video and convert_audio with FFmpeg available, when the
\* duration probe is missing, fails or prints a duration of zero, the
\* progress function is handed nothing, the transcode is launched all the
\* same, and the answer is the one its exit status gives; when a duration
\* d > 0 is known, each marker of t seconds hands min(t / d, 1.0) to the
\* progress function, in the order read.
C27_NoDurationNoProgress ==
    ( /\ dep.kind = "backend"
      /\ dep.op \in {"ffmpeg.convert_video", "ffmpeg.convert_audio"}
      /\ ~dep.unavailable ) =>
        /\ Len(dep.streams) <= 1
        /\ NoUsableDuration =>
              /\ Cardinality(Transcodes) = 1
              /\ \A j \in Transcodes :
                    dep.spawned[j].exit \in {"zero", "nonzero"} =>
                      /\ Len(dep.streams) = 1
                      /\ dep.streams[1].handed = << >>
                      /\ dep.answer =
                            Some(IF dep.spawned[j].exit = "zero"
                                 THEN Tuple2(TRUE, <<"Conversion successful">>)
                                 ELSE Tuple2(FALSE, <<"FFmpeg exited with code ", "N">>))
        /\ \A k \in 1..Len(dep.streams) :
              /\ ~dep.streams[k].callback => dep.streams[k].handed = << >>
              /\ (dep.streams[k].callback /\ dep.streams[k].duration = Some("duration")) =>
                    dep.streams[k].handed =
                      [i \in 1..Len(dep.streams[k].lines) |->
                         IF dep.streams[k].lines[i] >= dep.streams[k].seconds
                         THEN Pct(100)
                         ELSE (Pct(100) * dep.streams[k].lines[i])
                                 \div dep.streams[k].seconds]

\* a transcode given a progress function whose input has a duration of
\* zero: two lines with markers were read, nothing was handed over, and the
\* transcode succeeded
C27_Witness ==
    /\ dep.kind = "backend"
    /\ dep.op = "ffmpeg.convert_video"
    /\ \E k \in DurationProbes : dep.spawned[k].printed = "zero"
    /\ Len(dep.streams) = 1
    /\ dep.streams[1].callback
    /\ dep.streams[1].lines = <<3, 6>>
    /\ dep.streams[1].handed = << >>
    /\ dep.answer = Some(Tuple2(TRUE, <<"Conversion successful">>))

\* C29: when convert_presentation_to_images returns, on any path, the
\* temporary directory and the intermediate PDF in it are gone; the
\* rasteriser is called at most once, inside the temporary directory, on a
\* PDF that the PDF stage (a LibreOffice job that exited with 0) has left
\* there.
C29_TempDirGoneOnEveryPath ==
    (dep.kind = "backend" /\ dep.op = "libreoffice.convert_presentation_to_images") =>
        /\ TempDir \notin dirs
        /\ \A f \in fs : f.parent # TempDir
        /\ Len(dep.rastered) <= 1
        /\ \A k \in 1..Len(dep.rastered) :
              /\ dep.rastered[k].temp
              /\ dep.rastered[k].pdf
              /\ \E j \in 1..Len(dep.spawned) :
                    /\ dep.spawned[j].tool = "libreoffice"
                    /\ dep.spawned[j].purpose = "job"
                    /\ dep.spawned[j].exit = "zero"
                    /\ dep.spawned[j].wrote

\* the save of the second of two pages raised: the first slide is in the
\* output directory, the answer is a failure, and the temporary directory
\* the rasteriser worked in is gone
C29_Witness ==
    /\ dep.kind = "backend"
    /\ dep.op = "libreoffice.convert_presentation_to_images"
    /\ Len(dep.rastered) = 1
    /\ dep.rastered[1].temp
    /\ dep.rastered[1].pages = 2
    /\ dep.rastered[1].fail_at = 2
    /\ dep.answer # None
    /\ ~Get(dep.answer).success
    /\ \E f \in fs : f.parent = "out"
    /\ TempDir \notin dirs

\* C28: in a streaming transcode, with or without a progress function and
\* a duration, the backend waits for the exit status only after it has read
\* every line the tool wrote and seen the end of the stream; a write of
\* the tool that finds the pipe full is always let through later, and the
\* call returns, with the answer of the exit status, once the tool has
\* terminated.
C28_StderrDrainedBeforeWait ==
    /\ [](stream.phase \in {"waiting", "returned"} =>
            /\ stream.read = stream.lines
            /\ stream.pipe = 0
            /\ stream.toWrite = 0)
    /\ [](stream.phase = "returned" =>
            stream.proc = "exited" /\ stream.answer = Some(stream.code = 0))
    /\ (stream.phase # "idle" /\ stream.stalled) ~> ~stream.stalled
    /\ (stream.phase = "reading") ~> (stream.phase = "returned")

\* a transcode without progress function whose tool found the pipe full,
\* wrote all its lines all the same, and whose call has returned
C28_Witness ==
    /\ stream.phase = "returned"
    /\ ~stream.callback
    /\ ~stream.duration
    /\ stream.wasStalled
    /\ stream.lines = MaxLines
    /\ stream.read = MaxLines

\* C15: a backend call whose process exited with a non-zero status returns
\* failure, and its message is the text of the process's error stream as it
\* is, or the text of its standard output when the error stream is empty.
C15_NonZeroExitPassesDiagnostics ==
    call # None =>
        \A b \in BackendCalls :
            b.ended = "nonzero" =>
                /\ ~b.success
                /\ b.message = IF b.stderr # << >> THEN b.stderr ELSE b.stdout

\* a world in which every tool is resolved and every directory exists
BenchWorld ==
    [fs |-> {}, dirs |-> {"in", "out"}, path |-> [t \in Tools |-> TRUE],
     cache |-> [t \in LocatedTools |-> "present"],
     spawned |-> << >>, written |-> {}, made |-> {}, bcalls |-> << >>,
     faults |-> {}, progress |-> << >>, rastered |-> << >>, streams |-> << >>,
     cmds |-> << >>]

\* an environment in which the job of every tool ends as o
BenchEnv(o) ==
    [mkdir_ok |-> TRUE, pandoc |-> o, soffice |-> o, ffmpeg |-> o,
     probe |-> "noprobe", callback |-> FALSE, markers |-> << >>, duration |-> 1]

\* the messages a bounded backend operation returns when its process exits
\* with a non-zero status, over every text the process may leave
NonZeroMessages(op) ==
    LET src == [parent |-> "in", name |-> <<"f",".","m","d">>]
        dst == [parent |-> "out", name |-> <<"f",".","p","d","f">>]
    IN  {(CASE op = "pandoc.convert" ->
                 pandoc_convert(BenchWorld, BenchEnv(o), src, dst)
            [] op = "libreoffice.convert" ->
                 libreoffice_convert(BenchWorld, BenchEnv(o), src,
                                     <<"p","d","f">>, Some("out"))
            [] op = "ffmpeg.video_to_gif" ->
                 video_to_gif(BenchWorld, BenchEnv(o), src, dst,
                              "10", "480")).ret.message :
            o \in {x \in RunOutcomes : x.exit = "nonzero"}}

\* the texts that tell a timeout: the backends' own message and the text of
\* subprocess.TimeoutExpired
TimeoutMessages == {<<"Conversion timed out (>120s)">>, <<"Command timed out">>}

\* the time budget of each bounded backend operation, in seconds
Budget(op) ==
    CASE op = "pandoc.convert" -> 120
      [] op = "libreoffice.convert" -> 120
      [] op = "ffmpeg.video_to_gif" -> 300

\* the jobs launched during the finished conversion
Jobs ==
    {Get(call).spawned[k] : k \in {j \in 1..Len(Get(call).spawned) :
                                     Get(call).spawned[j].purpose = "job"}}

\* C16: a bounded backend call (Pandoc convert and LibreOffice convert with
\* 120 s, GIF encoding with 300 s) whose process overran its budget returns
\* failure, never success, with a message that tells a timeout and that the
\* operation returns for no non-zero exit; every job that timed out had the
\* budget of its tool's bounded operation.
C16_TimeoutIsDistinctFailure ==
    call # None =>
        /\ \A b \in BackendCalls :
              b.ended = "timeout" =>
                /\ ~b.success
                /\ b.message \in TimeoutMessages
                /\ b.message \notin NonZeroMessages(b.op)
        /\ \A j \in Jobs :
              j.exit = "timeout" =>
                \E b \in BackendCalls :
                    b.ended = "timeout" /\ j.timeout = Some(Budget(b.op))

\* C16 witness: GIF encoding gave up after its 300 s and the conversion
\* failed with the text of the timeout
C16_Witness ==
    /\ call # None
    /\ Get(call).result # None
    /\ ~Result.success
    /\ \E b \in BackendCalls :
          /\ b.op = "ffmpeg.video_to_gif"
          /\ b.ended = "timeout"
          /\ Result.error_message = Some(b.message)
    /\ \E j \in Jobs : j.exit = "timeout" /\ j.timeout = Some(300)

----------------------------------------------------------------------------
(* Properties of the dependency state                                      *)

\* the environment as an availability query meets it
QueryEnv == DepEnv(Quiet, "noprobe")

\* C12: after any sequence of availability queries, conversions, installs,
\* removals and cache clears, is_available() of each backend is true iff
\* the Dependency Locator's answer for the tool at that moment
\* (get_ffmpeg_path / get_pandoc_path / get_libreoffice_path) is a path.
C12_AvailableIffLocatorHasPath ==
    \A t \in LocatedTools :
        is_available(World, QueryEnv, t).ret <=> get_path(World, QueryEnv, t).ret

\* C13: a check_<tool> call with an entry in the cache returns that entry,
\* whatever the environment has become, and one without resolves afresh
\* and caches what it returns; clear_cache drops the entries of all tools;
\* no other operation removes or replaces an entry.
C13_ResolvedOncePerClear ==
    dep.kind # "init" =>
        /\ dep.kind = "check" =>
              /\ ~dep.raised
              /\ dep.cacheBefore[dep.tool] # "unknown" =>
                    dep.answer = Some(DependencyInfo(dep.tool,
                                                     dep.cacheBefore[dep.tool]))
              /\ dep.cacheBefore[dep.tool] = "unknown" =>
                    dep.answer = Some(DependencyInfo(dep.tool, installed[dep.tool]))
              /\ dep.answer = Some(DependencyInfo(dep.tool, cache[dep.tool]))
        /\ dep.kind = "clear_cache" => \A t \in LocatedTools : cache[t] = "unknown"
        /\ dep.kind # "clear_cache" =>
              \A t \in LocatedTools :
                  dep.cacheBefore[t] # "unknown" => cache[t] = dep.cacheBefore[t]

\* C13 witness: a check returned the cached "available" entry of a tool that
\* has been removed since, while another tool's entry says "not found"
C13_Witness ==
    /\ dep.kind = "check"
    /\ dep.cacheBefore[dep.tool] = "present"
    /\ installed[dep.tool] = "absent"
    /\ dep.answer = Some(DependencyInfo(dep.tool, "present"))
    /\ \E t \in LocatedTools : cache[t] = "absent" /\ installed[t] = "present"

\* C14: validate_dependencies called twice in a row on one converter, with
\* nothing in between, returns the same (ok, message) both times, also when
\* the first of the two calls found nothing cached.
C14_ValidateTwiceSame ==
    (dep.kind = "validate" /\ dep.again # None) =>
        /\ ~dep.raised
        /\ dep.answer = Get(dep.again).answer

\* C14 witness: the document converter validated twice, the first call being
\* the first lookup of the process, with only LibreOffice installed
C14_Witness ==
    /\ dep.kind = "validate"
    /\ dep.conv = "Document"
    /\ dep.again # None
    /\ \A t \in LocatedTools : Get(dep.again).cacheBefore[t] = "unknown"
    /\ dep.answer =
          Some(Validity(TRUE, <<"LibreOffice available (some formats may be limited)">>))

\* C17: every backend conversion operation (FFmpeg convert_video,
\* convert_audio, video_to_gif; Pandoc convert, convert_string; LibreOffice
\* convert, convert_presentation_to_images) called while its tool is
\* unavailable returns a failure, launches no process and creates no file
\* and no directory.
C17_UnavailableToolDoesNothing ==
    (dep.kind = "backend" /\ dep.unavailable) =>
        /\ ~dep.raised
        /\ dep.answer # None
        /\ ~Get(dep.answer).success
        /\ dep.spawned = << >>
        /\ dep.made = {} /\ dep.written = {}
        /\ fs = dep.fsBefore /\ dirs = dep.dirsBefore

\* C17 witness: the slides-to-images operation was called with LibreOffice
\* not installed, never looked for before, and the output directory missing
C17_Witness ==
    /\ dep.kind = "backend"
    /\ dep.op = "libreoffice.convert_presentation_to_images"
    /\ dep.unavailable
    /\ dep.cacheBefore["libreoffice"] = "unknown"
    /\ "out" \notin dep.dirsBefore
    /\ dep.answer = Some(Tuple2(FALSE, <<"LibreOffice not available">>))

\* C18: after a conversion has failed because its tool could not be
\* resolved, a conversion retried once the tool is installed does not
\* return the dependency-missing failure again (and does not raise).
C18_RetryAfterInstallPasses ==
    ( /\ dep.kind = "convert"
      /\ dep.missedBefore
      /\ installed[dep.tool] = "present" ) =>
        /\ ~dep.raised
        /\ dep.answer # Some(Failure(<<"FFmpeg not available">>))

----------------------------------------------------------------------------
(* Properties of progress reporting                                        *)

NonDecreasing(q) == \A i \in 1..Len(q) - 1 : q[i] <= q[i + 1]

\* C19: every fraction the registered callback receives is within [0, 1],
\* and a converter without a callback reports nothing and otherwise does
\* and returns what the converter with the callback does: same result, same
\* processes, same files and directories, same backend calls.
C19_FractionsInUnitAndCallbackOptional ==
    prog # None =>
        /\ \A i \in 1..Len(Get(prog).fractions) :
              Get(prog).fractions[i] \in 0..Pct(100)
        /\ Get(prog).unsetFractions = << >>
        /\ Get(prog).unset = Get(prog).registered

\* a transcode whose callback saw the two stage values, two banded
\* fractions and completion, and whose result is a success
C19_Witness ==
    /\ prog # None
    /\ Len(Get(prog).fractions) = 5
    /\ Get(prog).markers # << >>
    /\ Get(prog).unset.result # None
    /\ Get(Get(prog).unset.result).success
    /\ Get(prog).unset.spawned # << >>

\* C20: within one conversion by any converter the fractions the callback
\* receives never decrease, provided the elapsed-time markers of the tool
\* do not.
C20_FractionsNonDecreasing ==
    (prog # None /\ NonDecreasing(Get(prog).markers)) =>
        NonDecreasing(Get(prog).fractions)

\* a video transcode with two rising markers: 10%, 20%, two rising banded
\* fractions, 100%
C20_Witness ==
    /\ prog # None
    /\ Get(prog).converter = "video"
    /\ Len(Get(prog).markers) = 2
    /\ Get(prog).markers[1] < Get(prog).markers[2]
    /\ Len(Get(prog).fractions) = 5
    /\ Get(prog).fractions[1] = Pct(10)
    /\ Get(prog).fractions[2] = Pct(20)
    /\ Get(prog).fractions[3] < Get(prog).fractions[4]
    /\ Get(prog).fractions[5] = Pct(100)

\* the fractions the backend handed to the progress function during the
\* watched conversion
Handed ==
    IF Get(prog).streams = << >> THEN << >> ELSE Get(prog).streams[1].handed

\* C26: in an audio conversion and in a video conversion to a format other
\* than gif that calls the backend, every fraction p of the backend reaches
\* the callback as 0.2 + 0.75 * p: the callback receives 10%, 20%, the
\* rescaled fractions, all between 20% and 95%, and 100%; a value below 20%
\* comes only before the backend call and 100% only after it.
C26_BackendProgressInBand ==
    ( /\ prog # None
      /\ Get(prog).converter \in {"audio", "video"}
      /\ Get(call).output_format # <<"g","i","f">>
      /\ Get(prog).bcalls # << >> ) =>
        /\ Len(Get(prog).streams) <= 1
        /\ Get(prog).fractions =
              <<Pct(10), Pct(20)>>
              \o [i \in 1..Len(Handed) |-> Pct(20) + (3 * Handed[i]) \div 4]
              \o <<Pct(100)>>
        /\ \A i \in 1..Len(Handed) :
              /\ Handed[i] \in 0..Pct(100)
              /\ Get(prog).fractions[2 + i] \in Pct(20)..Pct(95)
        /\ \A k \in 1..Len(Get(prog).fractions) :
              /\ Get(prog).fractions[k] < Pct(20) => k = 1
              /\ Get(prog).fractions[k] = Pct(100) => k = Len(Get(prog).fractions)

\* an audio conversion whose tool reported the end of a 5 second input and
\* then one second more: the callback got 95% twice before the 100%
C26_Witness ==
    /\ prog # None
    /\ Get(prog).converter = "audio"
    /\ Get(prog).streams # << >>
    /\ Get(prog).streams[1].seconds = 5
    /\ Get(prog).markers = <<3, 6>>
    /\ Handed = <<Pct(60), Pct(100)>>
    /\ Get(prog).fractions = <<Pct(10), Pct(20), Pct(65), Pct(95), Pct(100)>>

----------------------------------------------------------------------------
(* Registry properties                                                     *)

\* the registered converter with the oldest registration that accepts (i, o)
EarliestRegistered(i, o) ==
    LET ok == SelectSeq(regOrder, LAMBDA c : can_convert(ClassOf(c), i, o))
    IN  IF ok = << >> THEN None ELSE Some(Head(ok))

\* C6: after any sequence of register/unregister/clear, find_converter returns
\* the earliest-registered of the registered converters that can convert the
\* pair (None when there is none), and a lookup or aggregation query leaves
\* the registry as it was.
C6_FindReturnsEarliestRegistered ==
    /\ \A i \in QueryInputs, o \in QueryOutputFormats :
          find_converter(converters, i, o) = EarliestRegistered(i, o)
    /\ lastOp.kind = "find" =>
          lastOp.answer = EarliestRegistered(lastOp.query[1], lastOp.query[2])
    /\ lastOp.kind \in {"find", "outputs"} => converters = lastOp.before

\* C6 witness: two video converters are registered among three or more, and
\* a lookup returned video2, the one ahead of video1 in registration order
C6_Witness ==
    /\ lastOp.kind = "find"
    /\ lastOp.answer = Some("video2")
    /\ "video1" \in Range(converters)
    /\ Len(converters) >= 3

\* C7: registering a present instance, unregistering an absent one and
\* clearing an empty registry leave the list unchanged, and no instance ever
\* occurs twice in the list.
C7_RegistryMutationIdempotent ==
    /\ \A i, j \in 1..Len(converters) : i # j => converters[i] # converters[j]
    /\ (lastOp.kind = "register" /\ Get(lastOp.arg) \in Range(lastOp.before))
          => converters = lastOp.before
    /\ (lastOp.kind = "unregister" /\ Get(lastOp.arg) \notin Range(lastOp.before))
          => converters = lastOp.before
    /\ (lastOp.kind = "clear" /\ lastOp.before = << >>)
          => converters = lastOp.before

\* C7 witness: an instance that is already in a list of several is registered
C7_Witness ==
    /\ lastOp.kind = "register"
    /\ Get(lastOp.arg) \in Range(lastOp.before)
    /\ Len(lastOp.before) >= 2
    /\ lastOp.before[1] # Get(lastOp.arg)

----------------------------------------------------------------------------
(* Properties of the pure helpers                                          *)

\* raw is lower-case letter n, or its upper-case form
SameLetter(raw, n) ==
    \/ raw = n
    \/ \E i \in 1..Len(UpperChars) : raw = UpperChars[i] /\ n = LowerChars[i]

\* n is raw lower-cased and without leading dot: raw is some dots followed by
\* n in any case, and n itself is lower-case and does not begin with a dot
IsNormalized(n, raw) ==
    \E k \in 0..Len(raw) :
        /\ \A j \in 1..k : raw[j] = "."
        /\ Len(n) = Len(raw) - k
        /\ \A j \in 1..Len(n) :
              SameLetter(raw[k + j], n[j]) /\ n[j] \notin Range(UpperChars)
        /\ (n = << >> \/ n[1] # ".")

\* C8: can_convert is true iff the input format, lower-cased and without
\* leading dot, is a declared input format of the converter and the output
\* format, normalised the same way, is a declared output format.
C8_CanConvertIffDeclared ==
    (pout # None /\ pin.op = "can_convert") =>
        (Get(pout).can <=>
            /\ \E n \in supported_input_formats(pin.conv) :
                  IsNormalized(n, pin.input_format)
            /\ \E m \in supported_output_formats(pin.conv) :
                  IsNormalized(m, pin.output_format))

\* C8 witness: can_convert answered true for formats written with leading
\* dots and in upper case
C8_Witness ==
    /\ pout # None
    /\ pin.op = "can_convert"
    /\ Get(pout).can
    /\ pin.input_format = <<".",".","P","N","G">>
    /\ pin.output_format = <<".","J","p","g">>

\* the extension of a file name, without its dot
Extension(name) ==
    IF PathSuffix(name) = << >> THEN << >> ELSE Tail(PathSuffix(name))

\* C9: get_output_path returns {output_dir if set, else the input's
\* directory}/{input stem}.{fmt}, fmt being the output format lower-cased and
\* without leading dot, and the extension of that path is fmt.
C9_OutputPathShape ==
    (pout # None /\ pin.op = "get_output_path") =>
        LET r == Get(Get(pout).path)
            dirSet == pin.options # None /\ Get(pin.options).output_dir # None
        IN  /\ dirSet => r.parent = Get(Get(pin.options).output_dir)
            /\ ~dirSet => r.parent = pin.input_path.parent
            /\ \E n \in FormatWords :
                  /\ IsNormalized(n, pin.output_format)
                  /\ r.name = PathStem(pin.input_path.name) \o <<".">> \o n
                  /\ Extension(r.name) = n

\* C9 witness: a path was derived for an input with a dotted stem, an output
\* directory and a format written ".PDF"
C9_Witness ==
    /\ pout # None
    /\ pin.op = "get_output_path"
    /\ pin.input_path.name = <<"a",".","b",".","m","d">>
    /\ pin.output_format = <<".","P","D","F">>
    /\ Get(Get(pout).path) =
          [parent |-> "out", name |-> <<"a",".","b",".","p","d","f">>]

====
